---- MODULE Spec2Model ----
(***************************************************************************)
(* term-ctrl: ANSI control sequence construction (the seq!, codes!,        *)
(* c256_*!, rgb_*! macros of src/src/macros.rs and term_seq! of            *)
(* src/lib.rs) and the stream capability helpers (src/src/support.rs and   *)
(* the StdPipe revision in src/lib.rs).                                    *)
(*                                                                         *)
(* Strings are sequences of byte values, so that the decimal rendering     *)
(* done by concat! is computed digit by digit.                             *)
(***************************************************************************)
EXTENDS Integers, Sequences, FiniteSets, TLC

VARIABLES
    invocation,   \* the macro invocation last expanded: [macro, args, trailing]
    expansion,    \* the string literal (byte sequence) it expanded to
    constant,     \* the catalogue constant the program names, and its value
    platform,     \* build target: "unix" (cfg(not(windows))) or "windows"
    attached,     \* what each standard stream is attached to
    written,      \* the bytes written so far to each standard stream
    consoleMode,  \* output mode bitmask of the console screen buffer (Windows)
    vtSupported,  \* the console host knows ENABLE_VIRTUAL_TERMINAL_PROCESSING
    lastError,    \* the calling thread's last-error code (Windows)
    result,       \* the library call just made and what it returned; dropped
                  \* (NoCall) as soon as the environment changes, so that it
                  \* always describes a call made in the present environment
    lastVerdict,  \* per stream, the capability verdict most recently computed
    threads,      \* the threads calling into the library, each with the call
                  \* it is in, its position in it and its locals
    startMode     \* the console mode when the threads were started

vars == <<invocation, expansion, constant, platform, attached, written, consoleMode,
          vtSupported, lastError, result, lastVerdict, threads, startMode>>

macroVars == <<invocation, expansion, constant>>
threadVars == <<threads, startMode>>
platformVars == <<platform, attached, written, consoleMode, vtSupported, lastError, result,
                  lastVerdict, threadVars>>

-----------------------------------------------------------------------------
(* Bytes of the sequence pattern *)

ESC == 27
LBRACKET == 91
SEMICOLON == 59
LOWER_M == 109
DIGIT_ZERO == 48

(* Model bounds *)

MaxArgs == 3

\* most bytes the program writes to one stream
MaxWritten == 1

\* longest code list joined into one pre-joined fragment
MaxFragLen == 2

\* integer literals handed to the macros
CodeVals == {0, 1, 4, 31, 107}

\* colour index / channel values handed to the extended-colour helpers
ColVals == {0, 15, 70, 180, 238, 256}

\* colour indexes around and far beyond the 0..255 range of a palette
WideVals == {255, 256, 257, 1000, 65536, 2147483647}

\* the argument lists of the repository's tests and doc examples
DocLists == { <<1>>, <<1, 2>>, <<4, 8, 15, 16, 23, 42>>, <<31, 1, 4>>, <<1, 2, 3>> }

-----------------------------------------------------------------------------
(* concat!: the compiler built-in the macros expand to *)

\* mutant: the value padded with zeros to three digits
Dec_ZeroPadded(n) == <<DIGIT_ZERO + ((n \div 100) % 10), DIGIT_ZERO + ((n \div 10) % 10),
                       DIGIT_ZERO + (n % 10)>>

RECURSIVE Dec(_)
\* an integer literal is rendered by its value, in decimal
Dec(n) == IF n < 10 THEN <<DIGIT_ZERO + n>>
          ELSE Dec(n \div 10) \o <<DIGIT_ZERO + (n % 10)>>

IntLit(n) == [kind |-> "int", val |-> n]
StrLit(s) == [kind |-> "str", val |-> s]

\* mutant: a string literal rendered as its source token, quotes (34) included
RenderLit_Stringify(lit) == IF lit.kind = "int" THEN Dec(lit.val)
                            ELSE <<34>> \o lit.val \o <<34>>

\* what one literal contributes to concat!'s result
RenderLit(lit) == IF lit.kind = "int" THEN Dec(lit.val) ELSE lit.val

RECURSIVE concat(_)
concat(lits) == IF lits = <<>> THEN <<>>
                ELSE RenderLit(Head(lits)) \o concat(Tail(lits))

\* the outcome of an invocation the compiler rejects (no byte is negative)
CompileError == <<-1>>

-----------------------------------------------------------------------------
(* src/src/macros.rs *)

\* mutant: the repetition without its ";" literal
SepRepeat_NoSeparator(n2) == [i \in 1..Len(n2) |-> n2[i]]

\* `$(concat!(";", $n2)),*` : one nested concat! per repetition
SepRepeat(n2) == [i \in 1..Len(n2) |-> StrLit(concat(<<StrLit(<<SEMICOLON>>), n2[i]>>))]

\* ($n1:expr, $($n2:expr),*)
codes_arm1(n, trailing) == \/ Len(n) >= 2 /\ ~trailing
                           \/ Len(n) = 1 /\ trailing
\* ($n1:expr, $($n2:expr,)*)
codes_arm2(n, trailing) == Len(n) >= 1 /\ trailing
\* ($n:expr)
codes_arm3(n, trailing) == Len(n) = 1 /\ ~trailing
\* ()
codes_arm4(n, trailing) == Len(n) = 0 /\ ~trailing

\* mutant: with a trailing comma, every argument is followed by its ";"
codes_TrailingSeparator(n, trailing) ==
    IF trailing /\ Len(n) >= 1
        THEN concat([i \in 1..(2 * Len(n)) |->
                        IF i % 2 = 1 THEN n[(i + 1) \div 2] ELSE StrLit(<<SEMICOLON>>)])
    ELSE IF Len(n) >= 2 THEN concat(<<Head(n)>> \o SepRepeat(Tail(n)))
    ELSE IF Len(n) = 1 THEN concat(<<n[1]>>)
    ELSE <<>>

codes(n, trailing) ==
    IF codes_arm1(n, trailing) THEN concat(<<Head(n)>> \o SepRepeat(Tail(n)))
    ELSE IF codes_arm2(n, trailing) THEN concat(<<Head(n)>> \o SepRepeat(Tail(n)))
    ELSE IF codes_arm3(n, trailing) THEN concat(<<n[1]>>)
    ELSE IF codes_arm4(n, trailing) THEN <<>>
    ELSE CompileError

\* ($($n:expr),*)
seq_arm1(n, trailing) == ~trailing
\* ($($n:expr,)*)
seq_arm2(n, trailing) == Len(n) = 0 \/ trailing
\* ($n:expr)
seq_arm3(n, trailing) == Len(n) = 1 /\ ~trailing
\* ()
seq_arm4(n, trailing) == Len(n) = 0 /\ ~trailing

seq(n, trailing) ==
    IF seq_arm1(n, trailing)
        THEN concat(<<StrLit(<<ESC, LBRACKET>>), StrLit(codes(n, FALSE)), StrLit(<<LOWER_M>>)>>)
    ELSE IF seq_arm2(n, trailing)
        THEN concat(<<StrLit(<<ESC, LBRACKET>>), StrLit(codes(n, FALSE)), StrLit(<<LOWER_M>>)>>)
    ELSE IF seq_arm3(n, trailing)
        THEN concat(<<StrLit(<<ESC, LBRACKET>>), n[1], StrLit(<<LOWER_M>>)>>)
    ELSE IF seq_arm4(n, trailing) THEN <<>>
    ELSE CompileError

\* mutant: the foreground helper with the background prefix
c256_fg_BgPrefix(col) == codes(<<IntLit(48), IntLit(5), col>>, FALSE)

c256_fg(col) == codes(<<IntLit(38), IntLit(5), col>>, FALSE)
\* mutant: the index reduced to a byte
c256_bg_Wrapped(col) == codes(<<IntLit(48), IntLit(5), IntLit(col.val % 256)>>, FALSE)

c256_bg(col) == codes(<<IntLit(48), IntLit(5), col>>, FALSE)
rgb_fg(red, green, blue) == codes(<<IntLit(38), IntLit(2), red, green, blue>>, FALSE)
rgb_bg(red, green, blue) == codes(<<IntLit(48), IntLit(2), red, green, blue>>, FALSE)

-----------------------------------------------------------------------------
(* src/lib.rs: term_seq! *)

\* ($n1:expr, $($n2:expr),*)
term_seq_arm1(n, trailing) == \/ Len(n) >= 2 /\ ~trailing
                              \/ Len(n) = 1 /\ trailing
\* ($n:expr)
term_seq_arm2(n, trailing) == Len(n) = 1 /\ ~trailing

term_seq(n, trailing) ==
    IF term_seq_arm1(n, trailing)
        THEN IF Len(n) = 1
                 \* `concat!("\u{1B}[", $n1, , "m")`: an empty argument
                 THEN CompileError
                 ELSE concat(<<StrLit(<<ESC, LBRACKET>>), Head(n)>> \o SepRepeat(Tail(n))
                             \o <<StrLit(<<LOWER_M>>)>>)
    ELSE IF term_seq_arm2(n, trailing)
        THEN concat(<<StrLit(<<ESC, LBRACKET>>), n[1], StrLit(<<LOWER_M>>)>>)
    ELSE CompileError

-----------------------------------------------------------------------------
(* Macro invocations *)

Lists(S, k) == UNION {[1..m -> S] : m \in 0..k}

IntLits(l) == [i \in DOMAIN l |-> IntLit(l[i])]

\* lists of integer literals
IntArgLists == {IntLits(l) : l \in Lists(CodeVals, MaxArgs) \cup DocLists}

\* a nested helper invocation, which concat! expands eagerly to its string
FragArgs ==
    {StrLit(c256_fg(IntLit(c))) : c \in ColVals}
    \cup {StrLit(c256_bg(IntLit(c))) : c \in ColVals}
    \cup {StrLit(rgb_fg(IntLit(r), IntLit(g), IntLit(b))) : r \in ColVals, g \in ColVals, b \in ColVals}
    \cup {StrLit(rgb_bg(IntLit(r), IntLit(g), IntLit(b))) : r \in ColVals, g \in ColVals, b \in ColVals}

\* a nested codes!(l) invocation, likewise expanded to its string
CodeFragment(l) == StrLit(codes(IntLits(l), FALSE))

\* the code lists joined into fragments
FlatLists == Lists(CodeVals, MaxFragLen) \ {<<>>}

\* codes!(A) and codes!(B) handed on as the two arguments of an invocation
GroupedArgLists == {<<CodeFragment(a), CodeFragment(b)>> : a \in FlatLists, b \in FlatLists}

\* the string-literal argument lists of the crate documentation:
\* ("1", "2", "3"), ("1;2", 3), (1, "2;3;4", 5); and a numeral a caller
\* wrote with leading zeros: ("007"), (1, "007")
StrArgLists ==
    { <<StrLit(<<49>>), StrLit(<<50>>), StrLit(<<51>>)>>,
      <<StrLit(<<49, 59, 50>>), IntLit(3)>>,
      <<IntLit(1), StrLit(<<50, 59, 51, 59, 52>>), IntLit(5)>>,
      <<StrLit(<<48, 48, 55>>)>>,
      <<IntLit(1), StrLit(<<48, 48, 55>>)>> }

SeqArgLists == IntArgLists \cup {<<f>> : f \in FragArgs} \cup GroupedArgLists \cup StrArgLists

NoInvocation == [macro |-> "none", args |-> <<>>, trailing |-> FALSE, expanded |-> FALSE]

Invocation(macro, args, trailing) ==
    [macro |-> macro, args |-> args, trailing |-> trailing, expanded |-> FALSE]

\* the invocations a program may contain; a trailing comma needs an argument
Invocations ==
    {Invocation(m, n, t) : m \in {"seq", "codes"},
                           n \in SeqArgLists, t \in {FALSE}}
    \cup {Invocation(m, n, t) : m \in {"seq", "codes"},
                                n \in SeqArgLists \ {<<>>}, t \in {TRUE}}
    \cup {Invocation("term_seq", n, FALSE) : n \in IntArgLists}
    \cup {Invocation("term_seq", n, TRUE) : n \in IntArgLists \ {<<>>}}
    \cup {Invocation(m, <<IntLit(c)>>, FALSE) : m \in {"c256_fg", "c256_bg"},
                                                c \in ColVals \cup WideVals}
    \cup {Invocation(m, <<IntLit(r), IntLit(g), IntLit(b)>>, FALSE) :
              m \in {"rgb_fg", "rgb_bg"}, r \in ColVals, g \in ColVals, b \in ColVals}

\* the compiler replaces the invocation by the string `out`
Expanded(out) ==
    /\ ~invocation.expanded
    /\ invocation' = [invocation EXCEPT !.expanded = TRUE]
    /\ expansion' = out
    /\ UNCHANGED <<constant, platformVars>>

Expand_seq ==
    /\ invocation.macro = "seq"
    /\ Expanded(seq(invocation.args, invocation.trailing))

Expand_codes ==
    /\ invocation.macro = "codes"
    /\ Expanded(codes(invocation.args, invocation.trailing))

Expand_term_seq ==
    /\ invocation.macro = "term_seq"
    /\ Expanded(term_seq(invocation.args, invocation.trailing))

Expand_c256_fg ==
    /\ invocation.macro = "c256_fg"
    /\ Expanded(c256_fg(invocation.args[1]))

Expand_c256_bg ==
    /\ invocation.macro = "c256_bg"
    /\ Expanded(c256_bg(invocation.args[1]))

Expand_rgb_fg ==
    /\ invocation.macro = "rgb_fg"
    /\ Expanded(rgb_fg(invocation.args[1], invocation.args[2], invocation.args[3]))

Expand_rgb_bg ==
    /\ invocation.macro = "rgb_bg"
    /\ Expanded(rgb_bg(invocation.args[1], invocation.args[2], invocation.args[3]))

-----------------------------------------------------------------------------
(* The catalogues of constants *)

\* `pub const PATH: &str = macro!(args);`
Const(source, path, macro, args) ==
    [source |-> source, path |-> path, macro |-> macro, args |-> args, target |-> <<>>]
\* `pub const PATH: &str = TARGET;` with TARGET resolved from the crate root
Alias(source, path, target) ==
    [source |-> source, path |-> path, macro |-> "alias", args |-> <<>>, target |-> target]
\* mutant: the literal without its first byte
Literal_DropsFirstByte(source, path, bytes) ==
    [source |-> source, path |-> path, macro |-> "literal", args |-> Tail(bytes),
     target |-> <<>>]

\* `pub const PATH: &str = "...";`
Literal(source, path, bytes) ==
    [source |-> source, path |-> path, macro |-> "literal", args |-> bytes, target |-> <<>>]

\* src/src/predefined.rs: the predefined sequences
predefined_rs ==
    { Const("src/src/predefined.rs", <<"RESET">>, "seq", <<0>>),
      Alias("src/src/predefined.rs", <<"effects", "NORMAL">>, <<"RESET">>),
      Const("src/src/predefined.rs", <<"effects", "BOLD">>, "seq", <<1>>),
      Const("src/src/predefined.rs", <<"effects", "DIM">>, "seq", <<2>>),
      Const("src/src/predefined.rs", <<"effects", "ITALIC">>, "seq", <<3>>),
      Const("src/src/predefined.rs", <<"effects", "UNDERLINE">>, "seq", <<4>>),
      Const("src/src/predefined.rs", <<"effects", "BLINK">>, "seq", <<5>>),
      Const("src/src/predefined.rs", <<"effects", "RAPID_BLINK">>, "seq", <<6>>),
      Const("src/src/predefined.rs", <<"effects", "INVERSE">>, "seq", <<7>>),
      Const("src/src/predefined.rs", <<"effects", "INVISIBLE">>, "seq", <<8>>),
      Const("src/src/predefined.rs", <<"effects", "STRIKE">>, "seq", <<9>>),
      Const("src/src/predefined.rs", <<"effects", "FRAKTUR">>, "seq", <<20>>),
      Const("src/src/predefined.rs", <<"effects", "DBL_UNDERLINE">>, "seq", <<21>>),
      Alias("src/src/predefined.rs", <<"effects", "STEADY">>, <<"effects", "remove", "BLINK">>),
      Alias("src/src/predefined.rs", <<"effects", "POSITIVE">>, <<"effects", "remove", "INVISIBLE">>),
      Alias("src/src/predefined.rs", <<"effects", "VISIBLE">>, <<"effects", "remove", "INVISIBLE">>),
      Const("src/src/predefined.rs", <<"effects", "remove", "BOLD_DIM">>, "seq", <<22>>),
      Const("src/src/predefined.rs", <<"effects", "remove", "ITALIC">>, "seq", <<23>>),
      Const("src/src/predefined.rs", <<"effects", "remove", "UNDERLINE">>, "seq", <<24>>),
      Const("src/src/predefined.rs", <<"effects", "remove", "BLINK">>, "seq", <<25>>),
      Const("src/src/predefined.rs", <<"effects", "remove", "INVERSE">>, "seq", <<27>>),
      Const("src/src/predefined.rs", <<"effects", "remove", "INVISIBLE">>, "seq", <<28>>),
      Const("src/src/predefined.rs", <<"effects", "remove", "STRIKE">>, "seq", <<29>>),
      Alias("src/src/predefined.rs", <<"effects", "remove", "INTENSITY">>, <<"effects", "remove", "BOLD_DIM">>),
      Const("src/src/predefined.rs", <<"fonts", "DEFAULT">>, "seq", <<10>>),
      Const("src/src/predefined.rs", <<"fonts", "ALT1">>, "seq", <<11>>),
      Const("src/src/predefined.rs", <<"fonts", "ALT2">>, "seq", <<12>>),
      Const("src/src/predefined.rs", <<"fonts", "ALT3">>, "seq", <<13>>),
      Const("src/src/predefined.rs", <<"fonts", "ALT4">>, "seq", <<14>>),
      Const("src/src/predefined.rs", <<"fonts", "ALT5">>, "seq", <<15>>),
      Const("src/src/predefined.rs", <<"fonts", "ALT6">>, "seq", <<16>>),
      Const("src/src/predefined.rs", <<"fonts", "ALT7">>, "seq", <<17>>),
      Const("src/src/predefined.rs", <<"fonts", "ALT8">>, "seq", <<18>>),
      Const("src/src/predefined.rs", <<"fonts", "ALT9">>, "seq", <<19>>),
      Const("src/src/predefined.rs", <<"colours", "RESET">>, "seq", <<39, 49>>),
      Alias("src/src/predefined.rs", <<"colours", "RESET_FG">>, <<"colours", "fg", "RESET">>),
      Alias("src/src/predefined.rs", <<"colours", "RESET_BG">>, <<"colours", "bg", "RESET">>),
      Const("src/src/predefined.rs", <<"colours", "fg", "BLACK">>, "seq", <<30>>),
      Const("src/src/predefined.rs", <<"colours", "fg", "RED">>, "seq", <<31>>),
      Const("src/src/predefined.rs", <<"colours", "fg", "GREEN">>, "seq", <<32>>),
      Const("src/src/predefined.rs", <<"colours", "fg", "YELLOW">>, "seq", <<33>>),
      Const("src/src/predefined.rs", <<"colours", "fg", "BLUE">>, "seq", <<34>>),
      Const("src/src/predefined.rs", <<"colours", "fg", "MAGENTA">>, "seq", <<35>>),
      Const("src/src/predefined.rs", <<"colours", "fg", "CYAN">>, "seq", <<36>>),
      Const("src/src/predefined.rs", <<"colours", "fg", "WHITE">>, "seq", <<37>>),
      Const("src/src/predefined.rs", <<"colours", "fg", "RESET">>, "seq", <<39>>),
      Const("src/src/predefined.rs", <<"colours", "fg", "bright", "BLACK">>, "seq", <<90>>),
      Const("src/src/predefined.rs", <<"colours", "fg", "bright", "RED">>, "seq", <<91>>),
      Const("src/src/predefined.rs", <<"colours", "fg", "bright", "GREEN">>, "seq", <<92>>),
      Const("src/src/predefined.rs", <<"colours", "fg", "bright", "YELLOW">>, "seq", <<93>>),
      Const("src/src/predefined.rs", <<"colours", "fg", "bright", "BLUE">>, "seq", <<94>>),
      Const("src/src/predefined.rs", <<"colours", "fg", "bright", "MAGENTA">>, "seq", <<95>>),
      Const("src/src/predefined.rs", <<"colours", "fg", "bright", "CYAN">>, "seq", <<96>>),
      Const("src/src/predefined.rs", <<"colours", "fg", "bright", "WHITE">>, "seq", <<97>>),
      Const("src/src/predefined.rs", <<"colours", "bg", "BLACK">>, "seq", <<40>>),
      Const("src/src/predefined.rs", <<"colours", "bg", "RED">>, "seq", <<41>>),
      Const("src/src/predefined.rs", <<"colours", "bg", "GREEN">>, "seq", <<42>>),
      Const("src/src/predefined.rs", <<"colours", "bg", "YELLOW">>, "seq", <<43>>),
      Const("src/src/predefined.rs", <<"colours", "bg", "BLUE">>, "seq", <<44>>),
      Const("src/src/predefined.rs", <<"colours", "bg", "MAGENTA">>, "seq", <<45>>),
      Const("src/src/predefined.rs", <<"colours", "bg", "CYAN">>, "seq", <<46>>),
      Const("src/src/predefined.rs", <<"colours", "bg", "WHITE">>, "seq", <<47>>),
      Const("src/src/predefined.rs", <<"colours", "bg", "RESET">>, "seq", <<49>>),
      Const("src/src/predefined.rs", <<"colours", "bg", "bright", "BLACK">>, "seq", <<100>>),
      Const("src/src/predefined.rs", <<"colours", "bg", "bright", "RED">>, "seq", <<101>>),
      Const("src/src/predefined.rs", <<"colours", "bg", "bright", "GREEN">>, "seq", <<102>>),
      Const("src/src/predefined.rs", <<"colours", "bg", "bright", "YELLOW">>, "seq", <<103>>),
      Const("src/src/predefined.rs", <<"colours", "bg", "bright", "BLUE">>, "seq", <<104>>),
      Const("src/src/predefined.rs", <<"colours", "bg", "bright", "MAGENTA">>, "seq", <<105>>),
      Const("src/src/predefined.rs", <<"colours", "bg", "bright", "CYAN">>, "seq", <<106>>),
      Const("src/src/predefined.rs", <<"colours", "bg", "bright", "WHITE">>, "seq", <<107>>),
      Const("src/src/predefined.rs", <<"misc", "FRAMED">>, "seq", <<51>>),
      Const("src/src/predefined.rs", <<"misc", "ENCIRCLED">>, "seq", <<52>>),
      Const("src/src/predefined.rs", <<"misc", "OVERLINED">>, "seq", <<53>>),
      Const("src/src/predefined.rs", <<"misc", "remove", "FRAMED_ENCIRCLED">>, "seq", <<54>>),
      Const("src/src/predefined.rs", <<"misc", "remove", "OVERLINED">>, "seq", <<55>>),
      Const("src/src/predefined.rs", <<"misc", "ideogram", "UNDERLINE">>, "seq", <<60>>),
      Const("src/src/predefined.rs", <<"misc", "ideogram", "DBL_UNDERLINE">>, "seq", <<61>>),
      Const("src/src/predefined.rs", <<"misc", "ideogram", "OVERLINE">>, "seq", <<62>>),
      Const("src/src/predefined.rs", <<"misc", "ideogram", "DBL_OVERLINE">>, "seq", <<63>>),
      Const("src/src/predefined.rs", <<"misc", "ideogram", "STRESS_MARKING">>, "seq", <<64>>),
      Const("src/src/predefined.rs", <<"misc", "ideogram", "RESET">>, "seq", <<65>>),
      Const("src/src/predefined.rs", <<"combinations", "fg_bold", "BLACK">>, "seq", <<30, 1>>),
      Const("src/src/predefined.rs", <<"combinations", "fg_bold", "RED">>, "seq", <<31, 1>>),
      Const("src/src/predefined.rs", <<"combinations", "fg_bold", "GREEN">>, "seq", <<32, 1>>),
      Const("src/src/predefined.rs", <<"combinations", "fg_bold", "YELLOW">>, "seq", <<33, 1>>),
      Const("src/src/predefined.rs", <<"combinations", "fg_bold", "BLUE">>, "seq", <<34, 1>>),
      Const("src/src/predefined.rs", <<"combinations", "fg_bold", "MAGENTA">>, "seq", <<35, 1>>),
      Const("src/src/predefined.rs", <<"combinations", "fg_bold", "CYAN">>, "seq", <<36, 1>>),
      Const("src/src/predefined.rs", <<"combinations", "fg_bold", "WHITE">>, "seq", <<37, 1>>) }

\* src/src/codes.rs: the code constants
codes_rs ==
    { Literal("src/src/codes.rs", <<"SEQ_PREFIX">>, <<27, 91>>),
      Literal("src/src/codes.rs", <<"SEQ_POSTFIX">>, <<109>>),
      Const("src/src/codes.rs", <<"RESET">>, "codes", <<0>>),
      Alias("src/src/codes.rs", <<"effects", "NORMAL">>, <<"RESET">>),
      Const("src/src/codes.rs", <<"effects", "BOLD">>, "codes", <<1>>),
      Const("src/src/codes.rs", <<"effects", "DIM">>, "codes", <<2>>),
      Const("src/src/codes.rs", <<"effects", "ITALIC">>, "codes", <<3>>),
      Const("src/src/codes.rs", <<"effects", "UNDERLINE">>, "codes", <<4>>),
      Const("src/src/codes.rs", <<"effects", "BLINK">>, "codes", <<5>>),
      Const("src/src/codes.rs", <<"effects", "RAPID_BLINK">>, "codes", <<6>>),
      Const("src/src/codes.rs", <<"effects", "INVERSE">>, "codes", <<7>>),
      Const("src/src/codes.rs", <<"effects", "INVISIBLE">>, "codes", <<8>>),
      Const("src/src/codes.rs", <<"effects", "STRIKE">>, "codes", <<9>>),
      Const("src/src/codes.rs", <<"effects", "FRAKTUR">>, "codes", <<20>>),
      Const("src/src/codes.rs", <<"effects", "DBL_UNDERLINE">>, "codes", <<21>>),
      Alias("src/src/codes.rs", <<"effects", "STEADY">>, <<"effects", "remove", "BLINK">>),
      Alias("src/src/codes.rs", <<"effects", "POSITIVE">>, <<"effects", "remove", "INVISIBLE">>),
      Alias("src/src/codes.rs", <<"effects", "VISIBLE">>, <<"effects", "remove", "INVISIBLE">>),
      Const("src/src/codes.rs", <<"effects", "remove", "BOLD_DIM">>, "codes", <<22>>),
      Const("src/src/codes.rs", <<"effects", "remove", "ITALIC">>, "codes", <<23>>),
      Const("src/src/codes.rs", <<"effects", "remove", "UNDERLINE">>, "codes", <<24>>),
      Const("src/src/codes.rs", <<"effects", "remove", "BLINK">>, "codes", <<25>>),
      Const("src/src/codes.rs", <<"effects", "remove", "INVERSE">>, "codes", <<27>>),
      Const("src/src/codes.rs", <<"effects", "remove", "INVISIBLE">>, "codes", <<28>>),
      Const("src/src/codes.rs", <<"effects", "remove", "STRIKE">>, "codes", <<29>>),
      Alias("src/src/codes.rs", <<"effects", "remove", "INTENSITY">>, <<"effects", "remove", "BOLD_DIM">>),
      Const("src/src/codes.rs", <<"fonts", "DEFAULT">>, "codes", <<10>>),
      Const("src/src/codes.rs", <<"fonts", "ALT1">>, "codes", <<11>>),
      Const("src/src/codes.rs", <<"fonts", "ALT2">>, "codes", <<12>>),
      Const("src/src/codes.rs", <<"fonts", "ALT3">>, "codes", <<13>>),
      Const("src/src/codes.rs", <<"fonts", "ALT4">>, "codes", <<14>>),
      Const("src/src/codes.rs", <<"fonts", "ALT5">>, "codes", <<15>>),
      Const("src/src/codes.rs", <<"fonts", "ALT6">>, "codes", <<16>>),
      Const("src/src/codes.rs", <<"fonts", "ALT7">>, "codes", <<17>>),
      Const("src/src/codes.rs", <<"fonts", "ALT8">>, "codes", <<18>>),
      Const("src/src/codes.rs", <<"fonts", "ALT9">>, "codes", <<19>>),
      Const("src/src/codes.rs", <<"colours", "RESET">>, "codes", <<39, 49>>),
      Alias("src/src/codes.rs", <<"colours", "RESET_FG">>, <<"colours", "fg", "RESET">>),
      Alias("src/src/codes.rs", <<"colours", "RESET_BG">>, <<"colours", "bg", "RESET">>),
      Const("src/src/codes.rs", <<"colours", "fg", "BLACK">>, "codes", <<30>>),
      Const("src/src/codes.rs", <<"colours", "fg", "RED">>, "codes", <<31>>),
      Const("src/src/codes.rs", <<"colours", "fg", "GREEN">>, "codes", <<32>>),
      Const("src/src/codes.rs", <<"colours", "fg", "YELLOW">>, "codes", <<33>>),
      Const("src/src/codes.rs", <<"colours", "fg", "BLUE">>, "codes", <<34>>),
      Const("src/src/codes.rs", <<"colours", "fg", "MAGENTA">>, "codes", <<35>>),
      Const("src/src/codes.rs", <<"colours", "fg", "CYAN">>, "codes", <<36>>),
      Const("src/src/codes.rs", <<"colours", "fg", "WHITE">>, "codes", <<37>>),
      Const("src/src/codes.rs", <<"colours", "fg", "RESET">>, "codes", <<39>>),
      Const("src/src/codes.rs", <<"colours", "fg", "bright", "BLACK">>, "codes", <<90>>),
      Const("src/src/codes.rs", <<"colours", "fg", "bright", "RED">>, "codes", <<91>>),
      Const("src/src/codes.rs", <<"colours", "fg", "bright", "GREEN">>, "codes", <<92>>),
      Const("src/src/codes.rs", <<"colours", "fg", "bright", "YELLOW">>, "codes", <<93>>),
      Const("src/src/codes.rs", <<"colours", "fg", "bright", "BLUE">>, "codes", <<94>>),
      Const("src/src/codes.rs", <<"colours", "fg", "bright", "MAGENTA">>, "codes", <<95>>),
      Const("src/src/codes.rs", <<"colours", "fg", "bright", "CYAN">>, "codes", <<96>>),
      Const("src/src/codes.rs", <<"colours", "fg", "bright", "WHITE">>, "codes", <<97>>),
      Const("src/src/codes.rs", <<"colours", "bg", "BLACK">>, "codes", <<40>>),
      Const("src/src/codes.rs", <<"colours", "bg", "RED">>, "codes", <<41>>),
      Const("src/src/codes.rs", <<"colours", "bg", "GREEN">>, "codes", <<42>>),
      Const("src/src/codes.rs", <<"colours", "bg", "YELLOW">>, "codes", <<43>>),
      Const("src/src/codes.rs", <<"colours", "bg", "BLUE">>, "codes", <<44>>),
      Const("src/src/codes.rs", <<"colours", "bg", "MAGENTA">>, "codes", <<45>>),
      Const("src/src/codes.rs", <<"colours", "bg", "CYAN">>, "codes", <<46>>),
      Const("src/src/codes.rs", <<"colours", "bg", "WHITE">>, "codes", <<47>>),
      Const("src/src/codes.rs", <<"colours", "bg", "RESET">>, "codes", <<49>>),
      Const("src/src/codes.rs", <<"colours", "bg", "bright", "BLACK">>, "codes", <<100>>),
      Const("src/src/codes.rs", <<"colours", "bg", "bright", "RED">>, "codes", <<101>>),
      Const("src/src/codes.rs", <<"colours", "bg", "bright", "GREEN">>, "codes", <<102>>),
      Const("src/src/codes.rs", <<"colours", "bg", "bright", "YELLOW">>, "codes", <<103>>),
      Const("src/src/codes.rs", <<"colours", "bg", "bright", "BLUE">>, "codes", <<104>>),
      Const("src/src/codes.rs", <<"colours", "bg", "bright", "MAGENTA">>, "codes", <<105>>),
      Const("src/src/codes.rs", <<"colours", "bg", "bright", "CYAN">>, "codes", <<106>>),
      Const("src/src/codes.rs", <<"colours", "bg", "bright", "WHITE">>, "codes", <<107>>),
      Const("src/src/codes.rs", <<"misc", "FRAMED">>, "codes", <<51>>),
      Const("src/src/codes.rs", <<"misc", "ENCIRCLED">>, "codes", <<52>>),
      Const("src/src/codes.rs", <<"misc", "OVERLINED">>, "codes", <<53>>),
      Const("src/src/codes.rs", <<"misc", "remove", "FRAMED_ENCIRCLED">>, "codes", <<54>>),
      Const("src/src/codes.rs", <<"misc", "remove", "OVERLINED">>, "codes", <<55>>),
      Const("src/src/codes.rs", <<"misc", "ideogram", "UNDERLINE">>, "codes", <<60>>),
      Const("src/src/codes.rs", <<"misc", "ideogram", "DBL_UNDERLINE">>, "codes", <<61>>),
      Const("src/src/codes.rs", <<"misc", "ideogram", "OVERLINE">>, "codes", <<62>>),
      Const("src/src/codes.rs", <<"misc", "ideogram", "DBL_OVERLINE">>, "codes", <<63>>),
      Const("src/src/codes.rs", <<"misc", "ideogram", "STRESS_MARKING">>, "codes", <<64>>),
      Const("src/src/codes.rs", <<"misc", "ideogram", "RESET">>, "codes", <<65>>),
      Const("src/src/codes.rs", <<"combinations", "fg_bold", "BLACK">>, "codes", <<30, 1>>),
      Const("src/src/codes.rs", <<"combinations", "fg_bold", "RED">>, "codes", <<31, 1>>),
      Const("src/src/codes.rs", <<"combinations", "fg_bold", "GREEN">>, "codes", <<32, 1>>),
      Const("src/src/codes.rs", <<"combinations", "fg_bold", "YELLOW">>, "codes", <<33, 1>>),
      Const("src/src/codes.rs", <<"combinations", "fg_bold", "BLUE">>, "codes", <<34, 1>>),
      Const("src/src/codes.rs", <<"combinations", "fg_bold", "MAGENTA">>, "codes", <<35, 1>>),
      Const("src/src/codes.rs", <<"combinations", "fg_bold", "CYAN">>, "codes", <<36, 1>>),
      Const("src/src/codes.rs", <<"combinations", "fg_bold", "WHITE">>, "codes", <<37, 1>>) }

\* src/lib.rs: mod predefined
lib_predefined ==
    { Const("src/lib.rs", <<"RESET">>, "term_seq", <<0>>),
      Const("src/lib.rs", <<"effects", "BOLD">>, "term_seq", <<1>>),
      Const("src/lib.rs", <<"effects", "DIM">>, "term_seq", <<2>>),
      Const("src/lib.rs", <<"effects", "ITALIC">>, "term_seq", <<3>>),
      Const("src/lib.rs", <<"effects", "UNDERLINE">>, "term_seq", <<4>>),
      Const("src/lib.rs", <<"effects", "REVERSE">>, "term_seq", <<7>>),
      Const("src/lib.rs", <<"effects", "INVISIBLE">>, "term_seq", <<8>>),
      Const("src/lib.rs", <<"effects", "STRIKE">>, "term_seq", <<9>>),
      Const("src/lib.rs", <<"color1", "BLACK">>, "term_seq", <<30>>),
      Const("src/lib.rs", <<"color1", "RED">>, "term_seq", <<31>>),
      Const("src/lib.rs", <<"color1", "GREEN">>, "term_seq", <<32>>),
      Const("src/lib.rs", <<"color1", "YELLOW">>, "term_seq", <<33>>),
      Const("src/lib.rs", <<"color1", "BLUE">>, "term_seq", <<34>>),
      Const("src/lib.rs", <<"color1", "MAGENTA">>, "term_seq", <<35>>),
      Const("src/lib.rs", <<"color1", "CYAN">>, "term_seq", <<36>>),
      Const("src/lib.rs", <<"color1", "WHITE">>, "term_seq", <<37>>),
      Const("src/lib.rs", <<"color2", "BLACK">>, "term_seq", <<90>>),
      Const("src/lib.rs", <<"color2", "RED">>, "term_seq", <<91>>),
      Const("src/lib.rs", <<"color2", "GREEN">>, "term_seq", <<92>>),
      Const("src/lib.rs", <<"color2", "YELLOW">>, "term_seq", <<93>>),
      Const("src/lib.rs", <<"color2", "BLUE">>, "term_seq", <<94>>),
      Const("src/lib.rs", <<"color2", "MAGENTA">>, "term_seq", <<95>>),
      Const("src/lib.rs", <<"color2", "CYAN">>, "term_seq", <<96>>),
      Const("src/lib.rs", <<"color2", "WHITE">>, "term_seq", <<97>>),
      Const("src/lib.rs", <<"color1_bold", "BLACK">>, "term_seq", <<30, 1>>),
      Const("src/lib.rs", <<"color1_bold", "RED">>, "term_seq", <<31, 1>>),
      Const("src/lib.rs", <<"color1_bold", "GREEN">>, "term_seq", <<32, 1>>),
      Const("src/lib.rs", <<"color1_bold", "YELLOW">>, "term_seq", <<33, 1>>),
      Const("src/lib.rs", <<"color1_bold", "BLUE">>, "term_seq", <<34, 1>>),
      Const("src/lib.rs", <<"color1_bold", "MAGENTA">>, "term_seq", <<35, 1>>),
      Const("src/lib.rs", <<"color1_bold", "CYAN">>, "term_seq", <<36, 1>>),
      Const("src/lib.rs", <<"color1_bold", "WHITE">>, "term_seq", <<37, 1>>),
      Const("src/lib.rs", <<"highlight1", "BLACK">>, "term_seq", <<40>>),
      Const("src/lib.rs", <<"highlight1", "RED">>, "term_seq", <<41>>),
      Const("src/lib.rs", <<"highlight1", "GREEN">>, "term_seq", <<42>>),
      Const("src/lib.rs", <<"highlight1", "YELLOW">>, "term_seq", <<43>>),
      Const("src/lib.rs", <<"highlight1", "BLUE">>, "term_seq", <<44>>),
      Const("src/lib.rs", <<"highlight1", "MAGENTA">>, "term_seq", <<45>>),
      Const("src/lib.rs", <<"highlight1", "CYAN">>, "term_seq", <<46>>),
      Const("src/lib.rs", <<"highlight1", "WHITE">>, "term_seq", <<47>>),
      Const("src/lib.rs", <<"highlight2", "BLACK">>, "term_seq", <<100>>),
      Const("src/lib.rs", <<"highlight2", "RED">>, "term_seq", <<101>>),
      Const("src/lib.rs", <<"highlight2", "GREEN">>, "term_seq", <<102>>),
      Const("src/lib.rs", <<"highlight2", "YELLOW">>, "term_seq", <<103>>),
      Const("src/lib.rs", <<"highlight2", "BLUE">>, "term_seq", <<104>>),
      Const("src/lib.rs", <<"highlight2", "MAGENTA">>, "term_seq", <<105>>),
      Const("src/lib.rs", <<"highlight2", "CYAN">>, "term_seq", <<106>>),
      Const("src/lib.rs", <<"highlight2", "WHITE">>, "term_seq", <<107>>) }

Catalogue == predefined_rs \cup codes_rs \cup lib_predefined

\* `pub use self::colours as colors;` (src/src/predefined.rs, src/src/codes.rs)
Canonical(path) == IF path[1] = "colors" THEN <<"colours">> \o Tail(path) ELSE path

\* mutant: a path resolved by its last segment alone, whatever its module
Definition_ByName(source, path) ==
    CHOOSE d \in Catalogue : d.source = source /\ d.path[Len(d.path)] = path[Len(path)]

Definition(source, path) ==
    CHOOSE d \in Catalogue : d.source = source /\ d.path = Canonical(path)

\* mutant: `remove::NAME` looked up as NAME of the enclosing module when
\* that module has a constant of this name
ConstValue_AliasInEnclosingModule(source, path) ==
    LET d == Definition(source, path)
        inner == SelectSeq(d.target, LAMBDA x : x # "remove")
        e == IF d.macro # "alias" THEN d
             ELSE IF \E c \in Catalogue : c.source = source /\ c.path = inner
                 THEN Definition(source, inner)
             ELSE Definition(source, d.target)
    IN  CASE e.macro = "literal" -> e.args
          [] e.macro = "seq" -> seq(IntLits(e.args), FALSE)
          [] e.macro = "codes" -> codes(IntLits(e.args), FALSE)
          [] e.macro = "term_seq" -> term_seq(IntLits(e.args), FALSE)
          [] e.macro = "alias" -> <<>>

\* mutant: the constant built with codes!, the macro of the sibling catalogue
ConstValue_BuiltWithCodes(source, path) ==
    LET d == Definition(source, path)
    IN  IF d.macro = "literal" THEN d.args ELSE codes(IntLits(d.args), FALSE)

\* the value the compiler gives the constant
RECURSIVE ConstValue(_, _)
ConstValue(source, path) ==
    LET d == Definition(source, path)
    IN  CASE d.macro = "alias" -> ConstValue(source, d.target)
          [] d.macro = "literal" -> d.args
          [] d.macro = "seq" -> seq(IntLits(d.args), FALSE)
          [] d.macro = "codes" -> codes(IntLits(d.args), FALSE)
          [] d.macro = "term_seq" -> term_seq(IntLits(d.args), FALSE)

\* the names a program can use: every defined path, and the colours under
\* the alias module `colors`
Names ==
    {[source |-> d.source, path |-> d.path] : d \in Catalogue}
    \cup {[source |-> d.source, path |-> <<"colors">> \o Tail(d.path)] :
              d \in {e \in Catalogue : e.path[1] = "colours"}}

NoConstant == [source |-> "none", path |-> <<>>, evaluated |-> FALSE, value |-> <<>>]

\* the compiler replaces the named constant by its value
Evaluated(value) ==
    /\ ~constant.evaluated
    /\ constant' = [constant EXCEPT !.evaluated = TRUE, !.value = value]
    /\ UNCHANGED <<invocation, expansion, platformVars>>

Use_predefined ==
    /\ constant.source = "src/src/predefined.rs"
    /\ Evaluated(ConstValue("src/src/predefined.rs", constant.path))

Use_codes ==
    /\ constant.source = "src/src/codes.rs"
    /\ Evaluated(ConstValue("src/src/codes.rs", constant.path))

Use_lib_predefined ==
    /\ constant.source = "src/lib.rs"
    /\ Evaluated(ConstValue("src/lib.rs", constant.path))

-----------------------------------------------------------------------------
(* The platform: standard streams *)

Streams == {"stdin", "stdout", "stderr"}

\* a terminal (console), a regular file, a pipe, or a closed descriptor
Attachments == {"tty", "file", "pipe", "closed"}

\* the build: target OS and library revision (src/lib.rs with StdPipe and
\* libc, src/src/ with the support module and atty)
Builds == [os : {"unix", "windows"}, rev : {"StdPipe", "atty"}]

\* no byte has been written to any stream
NothingWritten == [s \in Streams |-> <<>>]

STDIN_FILENO == 0
STDOUT_FILENO == 1
STDERR_FILENO == 2

StreamOfFd(fd) == CASE fd = STDIN_FILENO -> "stdin"
                    [] fd = STDOUT_FILENO -> "stdout"
                    [] fd = STDERR_FILENO -> "stderr"

\* libc::isatty: 1 for a terminal, 0 otherwise (ENOTTY, or EBADF when closed)
isatty(fd) == IF attached[StreamOfFd(fd)] = "tty" THEN 1 ELSE 0

\* what a library function returned and the platform calls it made
Ret(value, calls) == [value |-> value, calls |-> calls]

-----------------------------------------------------------------------------
(* src/lib.rs: StdPipe *)

StdPipe == {"StdIn", "StdOut", "StdErr"}

\* impl From<StdPipe> for libc::c_int
c_int_from(p) == CASE p = "StdIn" -> STDIN_FILENO
                   [] p = "StdOut" -> STDOUT_FILENO
                   [] p = "StdErr" -> STDERR_FILENO

\* mutant: no special case for StdIn
unix_StdPipe_fmt_supported_ProbesStdIn(self) ==
    LET r == isatty(c_int_from(self))
    IN Ret(IF r = 0 THEN FALSE ELSE TRUE,
           <<[api |-> "isatty", arg |-> c_int_from(self), ret |-> r]>>)

\* mutant: the arms of the match on isatty's result swapped
unix_StdPipe_fmt_supported_ArmsSwapped(self) ==
    IF self = "StdIn" THEN Ret(FALSE, <<>>)
    ELSE LET r == isatty(c_int_from(self))
         IN Ret(IF r = 0 THEN TRUE ELSE FALSE,
                <<[api |-> "isatty", arg |-> c_int_from(self), ret |-> r]>>)

unix_StdPipe_fmt_supported(self) ==
    IF self = "StdIn" THEN Ret(FALSE, <<>>)
    ELSE LET r == isatty(c_int_from(self))
         IN Ret(IF r = 0 THEN FALSE ELSE TRUE,
                <<[api |-> "isatty", arg |-> c_int_from(self), ret |-> r]>>)

\* mutant: the Windows build probing the stream as the POSIX build does
windows_StdPipe_fmt_supported_Probes(self) == unix_StdPipe_fmt_supported(self)

windows_StdPipe_fmt_supported(self) == Ret(FALSE, <<>>)

\* `pub use unix::*` / `pub use windows::*`
StdPipe_fmt_supported(self) ==
    IF platform.os = "windows" THEN windows_StdPipe_fmt_supported(self)
    ELSE unix_StdPipe_fmt_supported(self)

fmt_supported_stdout == StdPipe_fmt_supported("StdOut")

fmt_supported_stderr == StdPipe_fmt_supported("StdErr")

\* `user_pref && ...` evaluates its right operand only when user_pref holds
use_fmt_stdout(user_pref) ==
    IF user_pref THEN StdPipe_fmt_supported("StdOut") ELSE Ret(FALSE, <<>>)

use_fmt_stderr(user_pref) ==
    IF user_pref THEN StdPipe_fmt_supported("StdErr") ELSE Ret(FALSE, <<>>)

-----------------------------------------------------------------------------
(* src/src/support.rs *)

AttyStream(stream) == CASE stream = "Stdout" -> "stdout"
                        [] stream = "Stderr" -> "stderr"
                        [] stream = "Stdin" -> "stdin"

\* mutant: the verdict computed first is kept and returned again
atty_is_Cached(stream) ==
    IF lastVerdict[AttyStream(stream)] # {}
        THEN Ret(CHOOSE v \in lastVerdict[AttyStream(stream)] : TRUE, <<>>)
        ELSE LET r == attached[AttyStream(stream)] = "tty"
             IN Ret(r, <<[api |-> "atty::is", arg |-> stream, ret |-> r]>>)

\* mutant: true as soon as any output stream is a terminal
atty_is_AnyTerminal(stream) ==
    LET r == \E s \in {"stdout", "stderr"} : attached[s] = "tty"
    IN Ret(r, <<[api |-> "atty::is", arg |-> stream, ret |-> r]>>)

\* atty::is: is the stream attached to a terminal (a console on Windows)
atty_is(stream) ==
    LET r == attached[AttyStream(stream)] = "tty"
    IN Ret(r, <<[api |-> "atty::is", arg |-> stream, ret |-> r]>>)

\* mutant: the terminal is asked twice
support_fmt_supported_stdout_ProbesTwice ==
    Ret(atty_is("Stdout").value, atty_is("Stdout").calls \o atty_is("Stdout").calls)

support_fmt_supported_stdout == atty_is("Stdout")

\* mutant: the stderr helper asks about stdout
support_fmt_supported_stderr_AsksStdout == atty_is("Stdout")

support_fmt_supported_stderr == atty_is("Stderr")

\* mutant: `||` for `&&`
support_use_fmt_stdout_Or(user_pref) ==
    IF user_pref THEN Ret(TRUE, <<>>) ELSE support_fmt_supported_stdout

\* mutant: the capability is checked before the preference is looked at
support_use_fmt_stdout_Eager(user_pref) ==
    LET r == support_fmt_supported_stdout
    IN Ret(user_pref /\ r.value, r.calls)

support_use_fmt_stdout(user_pref) ==
    IF user_pref THEN support_fmt_supported_stdout ELSE Ret(FALSE, <<>>)

support_use_fmt_stderr(user_pref) ==
    IF user_pref THEN support_fmt_supported_stderr ELSE Ret(FALSE, <<>>)

(* Windows console API, as enable_ansi_support uses it *)

ERROR_ACCESS_DENIED == 5
ERROR_INVALID_HANDLE == 6
ERROR_INVALID_PARAMETER == 87

\* `-11i32 as u32`, kept as the i32 it is written as
STD_OUT_HANDLE == -11
ENABLE_VIRTUAL_TERMINAL_PROCESSING == 4

INVALID_HANDLE_VALUE == "INVALID_HANDLE_VALUE"

\* console output modes: ENABLE_PROCESSED_OUTPUT (1), ENABLE_WRAP_AT_EOL_OUTPUT
\* (2) and ENABLE_VIRTUAL_TERMINAL_PROCESSING (4) in every combination
ConsoleModes == 0..7

RECURSIVE BitAnd(_, _)
BitAnd(a, b) == IF a = 0 \/ b = 0 THEN 0
                ELSE (a % 2) * (b % 2) + 2 * BitAnd(a \div 2, b \div 2)

RECURSIVE BitOr(_, _)
BitOr(a, b) == IF a = 0 THEN b
               ELSE IF b = 0 THEN a
               ELSE (IF a % 2 = 1 \/ b % 2 = 1 THEN 1 ELSE 0)
                    + 2 * BitOr(a \div 2, b \div 2)

\* the last-error code after a call that succeeded: the API leaves it as it
\* was, or resets it; which one is not part of its contract
AfterSuccess(err, clears) == IF clears THEN 0 ELSE err

GetStdHandle(nStdHandle, err, fails, clears) ==
    IF fails
        THEN [ok |-> FALSE, ret |-> INVALID_HANDLE_VALUE, err |-> ERROR_INVALID_HANDLE]
    ELSE IF nStdHandle = STD_OUT_HANDLE
        THEN [ok |-> TRUE, ret |-> "stdout", err |-> AfterSuccess(err, clears)]
    ELSE [ok |-> FALSE, ret |-> INVALID_HANDLE_VALUE, err |-> ERROR_INVALID_HANDLE]

\* mutant: the mode is reported without its virtual-terminal bit
GetConsoleMode_MasksVT(h, err, clears) ==
    IF h \in Streams /\ attached[h] = "tty"
        THEN [ok |-> TRUE,
              mode |-> consoleMode - BitAnd(consoleMode, ENABLE_VIRTUAL_TERMINAL_PROCESSING),
              err |-> AfterSuccess(err, clears)]
        ELSE [ok |-> FALSE, mode |-> 0, err |-> ERROR_INVALID_HANDLE]

\* succeeds on a console handle only
GetConsoleMode(h, err, clears) ==
    IF h \in Streams /\ attached[h] = "tty"
        THEN [ok |-> TRUE, mode |-> consoleMode, err |-> AfterSuccess(err, clears)]
        ELSE [ok |-> FALSE, mode |-> 0, err |-> ERROR_INVALID_HANDLE]

\* mutant: a host that does not know the VT bit accepts the call and
\* changes nothing
SetConsoleMode_SilentlyIgnored(h, mode, err, clears) ==
    IF ~(h \in Streams /\ attached[h] = "tty")
        THEN [ok |-> FALSE, set |-> consoleMode, err |-> ERROR_INVALID_HANDLE]
    ELSE IF BitAnd(mode, ENABLE_VIRTUAL_TERMINAL_PROCESSING) # 0 /\ ~vtSupported
        THEN [ok |-> TRUE, set |-> consoleMode, err |-> AfterSuccess(err, clears)]
    ELSE [ok |-> TRUE, set |-> mode, err |-> AfterSuccess(err, clears)]

\* mutant: a host that does not know the VT bit stores the mode and then
\* reports the error
SetConsoleMode_AppliesThenFails(h, mode, err, clears) ==
    IF ~(h \in Streams /\ attached[h] = "tty")
        THEN [ok |-> FALSE, set |-> consoleMode, err |-> ERROR_INVALID_HANDLE]
    ELSE IF BitAnd(mode, ENABLE_VIRTUAL_TERMINAL_PROCESSING) # 0 /\ ~vtSupported
        THEN [ok |-> FALSE, set |-> mode, err |-> ERROR_INVALID_PARAMETER]
    ELSE [ok |-> TRUE, set |-> mode, err |-> AfterSuccess(err, clears)]

\* `set` is the console mode after the call
SetConsoleMode(h, mode, err, clears) ==
    IF ~(h \in Streams /\ attached[h] = "tty")
        THEN [ok |-> FALSE, set |-> consoleMode, err |-> ERROR_INVALID_HANDLE]
    ELSE IF BitAnd(mode, ENABLE_VIRTUAL_TERMINAL_PROCESSING) # 0 /\ ~vtSupported
        THEN [ok |-> FALSE, set |-> consoleMode, err |-> ERROR_INVALID_PARAMETER]
    ELSE [ok |-> TRUE, set |-> mode, err |-> AfterSuccess(err, clears)]

Ok == [ok |-> TRUE, err |-> 0]
Err(e) == [ok |-> FALSE, err |-> e]

Called(api, c) == [api |-> api, ok |-> c.ok, err |-> c.err]

\* mutant: SetConsoleMode is called whether or not the VT bit is set already
enable_ansi_support_AlwaysSets(fails, clears) ==
    LET c1 == GetStdHandle(STD_OUT_HANDLE, lastError, fails, clears)
        l1 == <<Called("GetStdHandle", c1)>>
    IN  IF c1.err # 0
            THEN [value |-> Err(c1.err), calls |-> l1, mode |-> consoleMode, err |-> c1.err]
        ELSE
    LET c2 == GetConsoleMode(c1.ret, c1.err, clears)
        console_mode == IF c2.ok THEN c2.mode ELSE 0
        l2 == l1 \o <<Called("GetConsoleMode", c2)>>
    IN  IF c2.err # 0
            THEN [value |-> Err(c2.err), calls |-> l2, mode |-> consoleMode, err |-> c2.err]
        ELSE
    LET c3 == SetConsoleMode(c1.ret, BitOr(console_mode, ENABLE_VIRTUAL_TERMINAL_PROCESSING),
                             c2.err, clears)
        l3 == l2 \o <<Called("SetConsoleMode", c3)>>
    IN  [value |-> IF c3.err # 0 THEN Err(c3.err) ELSE Ok, calls |-> l3,
         mode |-> c3.set, err |-> c3.err]

\* mutant: without the `?` after GetStdHandle, the next call is made on
\* whatever handle came back and the last error found is returned
enable_ansi_support_NoEarlyReturn(fails, clears) ==
    LET c1 == GetStdHandle(STD_OUT_HANDLE, lastError, fails, clears)
        c2 == GetConsoleMode(c1.ret, c1.err, clears)
        l2 == <<Called("GetStdHandle", c1), Called("GetConsoleMode", c2)>>
        console_mode == IF c2.ok THEN c2.mode ELSE 0
    IN  IF c2.err # 0
            THEN [value |-> Err(c2.err), calls |-> l2, mode |-> consoleMode, err |-> c2.err]
        ELSE IF BitAnd(console_mode, ENABLE_VIRTUAL_TERMINAL_PROCESSING) = 0
            THEN LET c3 == SetConsoleMode(c1.ret,
                                          BitOr(console_mode, ENABLE_VIRTUAL_TERMINAL_PROCESSING),
                                          c2.err, clears)
                 IN  [value |-> IF c3.err # 0 THEN Err(c3.err) ELSE Ok,
                      calls |-> l2 \o <<Called("SetConsoleMode", c3)>>,
                      mode |-> c3.set, err |-> c3.err]
        ELSE [value |-> Ok, calls |-> l2, mode |-> consoleMode, err |-> c2.err]

\* value: the Result returned; calls: the platform calls made; mode, err: the
\* console mode and the last-error code the call leaves behind.
\* handle_error! reads GetLastError() after each call and returns Err(e) for
\* any e # 0.
enable_ansi_support(fails, clears) ==
    LET c1 == GetStdHandle(STD_OUT_HANDLE, lastError, fails, clears)
        l1 == <<Called("GetStdHandle", c1)>>
    IN  IF c1.err # 0
            THEN [value |-> Err(c1.err), calls |-> l1, mode |-> consoleMode, err |-> c1.err]
        ELSE
    LET std_out_handle == c1.ret
        c2 == GetConsoleMode(std_out_handle, c1.err, clears)
        console_mode == IF c2.ok THEN c2.mode ELSE 0
        l2 == l1 \o <<Called("GetConsoleMode", c2)>>
    IN  IF c2.err # 0
            THEN [value |-> Err(c2.err), calls |-> l2, mode |-> consoleMode, err |-> c2.err]
        ELSE IF BitAnd(console_mode, ENABLE_VIRTUAL_TERMINAL_PROCESSING) = 0
            THEN LET c3 == SetConsoleMode(std_out_handle,
                                          BitOr(console_mode, ENABLE_VIRTUAL_TERMINAL_PROCESSING),
                                          c2.err, clears)
                     l3 == l2 \o <<Called("SetConsoleMode", c3)>>
                 IN  IF c3.err # 0
                         THEN [value |-> Err(c3.err), calls |-> l3, mode |-> c3.set, err |-> c3.err]
                         ELSE [value |-> Ok, calls |-> l3, mode |-> c3.set, err |-> c3.err]
        ELSE [value |-> Ok, calls |-> l2, mode |-> consoleMode, err |-> c2.err]

-----------------------------------------------------------------------------
(* Calls into the library, and the environment *)

NoCall == [op |-> "none"]

\* the library is called by the program's one thread, step by step
NoThreads == <<>>

\* a verdict is kept as a set: empty until one is computed, then {v}
NoVerdict == {}

\* mutant: the call also writes a code-less sequence to the stream it is about
CapCall_WritesProbe(op, stream, pref, r) ==
    /\ result' = [op |-> op, stream |-> stream, pref |-> pref,
                  value |-> r.value, calls |-> r.calls,
                  before |-> lastVerdict[stream],
                  entry |-> [mode |-> consoleMode, err |-> lastError]]
    /\ lastVerdict' = IF pref THEN [lastVerdict EXCEPT ![stream] = {r.value}]
                      ELSE lastVerdict
    /\ written' = [written EXCEPT ![stream] = @ \o <<ESC, LBRACKET, LOWER_M>>]
    /\ UNCHANGED <<macroVars, threadVars, platform, attached, consoleMode, vtSupported, lastError>>

\* a capability call on `stream` with preference `pref` that returned r
CapCall(op, stream, pref, r) ==
    /\ result' = [op |-> op, stream |-> stream, pref |-> pref,
                  value |-> r.value, calls |-> r.calls,
                  before |-> lastVerdict[stream],
                  entry |-> [mode |-> consoleMode, err |-> lastError]]
    /\ lastVerdict' = IF pref THEN [lastVerdict EXCEPT ![stream] = {r.value}]
                      ELSE lastVerdict
    /\ UNCHANGED <<macroVars, threadVars, written, platform, attached, consoleMode, vtSupported, lastError>>

\* the standard stream a StdPipe value names
PipeStream(self) == CASE self = "StdIn" -> "stdin"
                      [] self = "StdOut" -> "stdout"
                      [] self = "StdErr" -> "stderr"

Call_StdPipe_fmt_supported ==
    /\ platform.rev = "StdPipe"
    /\ \E self \in StdPipe :
           CapCall("StdPipe::fmt_supported", PipeStream(self), TRUE,
                   StdPipe_fmt_supported(self))

Call_fmt_supported_stdout ==
    /\ platform.rev = "StdPipe"
    /\ CapCall("fmt_supported_stdout", "stdout", TRUE, fmt_supported_stdout)

Call_fmt_supported_stderr ==
    /\ platform.rev = "StdPipe"
    /\ CapCall("fmt_supported_stderr", "stderr", TRUE, fmt_supported_stderr)

Call_use_fmt_stdout ==
    /\ platform.rev = "StdPipe"
    /\ \E user_pref \in BOOLEAN :
           CapCall("use_fmt_stdout", "stdout", user_pref, use_fmt_stdout(user_pref))

Call_use_fmt_stderr ==
    /\ platform.rev = "StdPipe"
    /\ \E user_pref \in BOOLEAN :
           CapCall("use_fmt_stderr", "stderr", user_pref, use_fmt_stderr(user_pref))

Call_support_fmt_supported_stdout ==
    /\ platform.rev = "atty"
    /\ CapCall("support::fmt_supported_stdout", "stdout", TRUE, support_fmt_supported_stdout)

Call_support_fmt_supported_stderr ==
    /\ platform.rev = "atty"
    /\ CapCall("support::fmt_supported_stderr", "stderr", TRUE, support_fmt_supported_stderr)

Call_support_use_fmt_stdout ==
    /\ platform.rev = "atty"
    /\ \E user_pref \in BOOLEAN :
           CapCall("support::use_fmt_stdout", "stdout", user_pref,
                   support_use_fmt_stdout(user_pref))

Call_support_use_fmt_stderr ==
    /\ platform.rev = "atty"
    /\ \E user_pref \in BOOLEAN :
           CapCall("support::use_fmt_stderr", "stderr", user_pref,
                   support_use_fmt_stderr(user_pref))

\* #[cfg(windows)]
Call_enable_ansi_support ==
    /\ platform = [os |-> "windows", rev |-> "atty"]
    /\ \E fails \in BOOLEAN, clears \in BOOLEAN :
           LET r == enable_ansi_support(fails, clears)
           IN  /\ result' = [op |-> "enable_ansi_support", stream |-> "stdout",
                             pref |-> TRUE, value |-> r.value, calls |-> r.calls,
                             \* what the call before it returned, if nothing
                             \* has changed since
                             before |-> IF result.op = "enable_ansi_support"
                                            THEN {result.value} ELSE {},
                             entry |-> [mode |-> consoleMode, err |-> lastError]]
               /\ consoleMode' = r.mode
               /\ lastError' = r.err
    /\ UNCHANGED <<macroVars, threadVars, written, platform, attached, vtSupported, lastVerdict>>

\* the process, its parent or a test harness re-attaches a standard stream
Redirect ==
    \E s \in Streams, a \in Attachments :
        /\ a # attached[s]
        /\ attached' = [attached EXCEPT ![s] = a]
        /\ result' = NoCall
        /\ UNCHANGED <<macroVars, threadVars, written, platform, consoleMode, vtSupported, lastError, lastVerdict>>

\* the program itself prints to stdout or stderr (here: one ESC byte)
Write ==
    \E s \in {"stdout", "stderr"} :
        /\ Len(written[s]) < MaxWritten
        /\ written' = [written EXCEPT ![s] = Append(@, ESC)]
        /\ result' = NoCall
        /\ UNCHANGED <<macroVars, threadVars, platform, attached, consoleMode, vtSupported,
                       lastError, lastVerdict>>

\* some other API call of the thread fails, or resets the last-error code
SetLastError ==
    \E e \in {0, ERROR_ACCESS_DENIED} :
        /\ e # lastError
        /\ lastError' = e
        /\ result' = NoCall
        /\ UNCHANGED <<macroVars, threadVars, written, platform, attached, consoleMode, vtSupported, lastVerdict>>

-----------------------------------------------------------------------------
(* Threads calling into the library (Windows build of src/src/): one step   *)
(* per platform call, so that the calls of different threads interleave     *)

Threads == {1, 2}

\* pc: "idle", the platform call the thread is about to make, or "done";
\* err: the thread's own last-error code; verdict / outcome: what a
\* capability helper / enable_ansi_support returned; ncalls: the platform
\* calls made by the call so far; probed: what the stream was attached to
\* when the helper probed it; beside: what else held at that moment (the
\* console mode, the attachment of the other output stream)
NothingBeside == [mode |-> 0, other |-> "none"]

IdleThread == [pc |-> "idle", op |-> "none", user_pref |-> TRUE, std_out_handle |-> "none",
               console_mode |-> 0, err |-> 0, verdict |-> FALSE, outcome |-> Ok,
               ncalls |-> 0, probed |-> "none", beside |-> NothingBeside]

ThreadStep(t, next) ==
    /\ threads' = [threads EXCEPT ![t] = next]
    /\ UNCHANGED <<macroVars, platform, attached, written, vtSupported, lastError, result,
                   lastVerdict, startMode>>

\* the helpers without a preference argument
FmtOnlyOps == {"support::fmt_supported_stdout", "support::fmt_supported_stderr"}

\* the stream a helper is about
ThreadStream(op) == IF op \in {"support::fmt_supported_stdout", "support::use_fmt_stdout"}
                    THEN "stdout" ELSE "stderr"

\* the output stream a helper is not about
OtherStream(op) == IF ThreadStream(op) = "stdout" THEN "stderr" ELSE "stdout"

ThreadOps == {"support::fmt_supported_stdout", "support::fmt_supported_stderr",
              "support::use_fmt_stdout", "support::use_fmt_stderr"}

\* a thread calls one of the capability helpers
Begin_capability(t) ==
    /\ threads[t].pc = "idle"
    /\ \E op \in ThreadOps, user_pref \in BOOLEAN :
           /\ op \in FmtOnlyOps => user_pref
           /\ ThreadStep(t, [threads[t] EXCEPT !.pc = "atty::is", !.op = op,
                                                !.user_pref = user_pref])
    /\ UNCHANGED consoleMode

\* the helper's body: `atty::is(..)`, behind `user_pref &&` for use_fmt_*
Step_capability(t) ==
    /\ threads[t].pc = "atty::is"
    /\ LET th == threads[t]
           r == CASE th.op = "support::fmt_supported_stdout" -> support_fmt_supported_stdout
                  [] th.op = "support::fmt_supported_stderr" -> support_fmt_supported_stderr
                  [] th.op = "support::use_fmt_stdout" -> support_use_fmt_stdout(th.user_pref)
                  [] th.op = "support::use_fmt_stderr" -> support_use_fmt_stderr(th.user_pref)
       IN  ThreadStep(t, [th EXCEPT !.pc = "done", !.verdict = r.value,
                                    !.ncalls = Len(r.calls),
                                    !.probed = attached[ThreadStream(th.op)],
                                    !.beside = [mode |-> consoleMode,
                                                other |-> attached[OtherStream(th.op)]]])
    /\ UNCHANGED consoleMode

\* a thread calls enable_ansi_support
Begin_enable_ansi_support(t) ==
    /\ threads[t].pc = "idle"
    /\ ThreadStep(t, [threads[t] EXCEPT !.pc = "GetStdHandle", !.op = "enable_ansi_support"])
    /\ UNCHANGED consoleMode

\* `let std_out_handle = handle_error!(GetStdHandle(STD_OUT_HANDLE))?;`
Step_GetStdHandle(t) ==
    /\ threads[t].pc = "GetStdHandle"
    /\ \E fails \in BOOLEAN, clears \in BOOLEAN :
           LET th == threads[t]
               c == GetStdHandle(STD_OUT_HANDLE, th.err, fails, clears)
           IN  ThreadStep(t, IF c.err # 0
                                THEN [th EXCEPT !.pc = "done", !.outcome = Err(c.err),
                                                !.err = c.err, !.ncalls = @ + 1]
                                ELSE [th EXCEPT !.pc = "GetConsoleMode",
                                                !.std_out_handle = c.ret,
                                                !.err = c.err, !.ncalls = @ + 1])
    /\ UNCHANGED consoleMode

\* `handle_error!(GetConsoleMode(std_out_handle, &mut console_mode))?;` and
\* the test of the VT bit
Step_GetConsoleMode(t) ==
    /\ threads[t].pc = "GetConsoleMode"
    /\ \E clears \in BOOLEAN :
           LET th == threads[t]
               c == GetConsoleMode(th.std_out_handle, th.err, clears)
               console_mode == IF c.ok THEN c.mode ELSE 0
           IN  ThreadStep(t,
                   IF c.err # 0
                       THEN [th EXCEPT !.pc = "done", !.outcome = Err(c.err),
                                       !.err = c.err, !.ncalls = @ + 1]
                   ELSE IF BitAnd(console_mode, ENABLE_VIRTUAL_TERMINAL_PROCESSING) = 0
                       THEN [th EXCEPT !.pc = "SetConsoleMode", !.console_mode = console_mode,
                                       !.err = c.err, !.ncalls = @ + 1]
                   ELSE [th EXCEPT !.pc = "done", !.outcome = Ok,
                                   !.console_mode = console_mode,
                                   !.err = c.err, !.ncalls = @ + 1])
    /\ UNCHANGED consoleMode

\* mutant: the mode written is the VT bit alone, without `console_mode |`
RequestedMode_OnlyVT(console_mode) == ENABLE_VIRTUAL_TERMINAL_PROCESSING

\* `console_mode | ENABLE_VIRTUAL_TERMINAL_PROCESSING`
RequestedMode(console_mode) == BitOr(console_mode, ENABLE_VIRTUAL_TERMINAL_PROCESSING)

\* `handle_error!(SetConsoleMode(std_out_handle, console_mode | ..))?;`
Step_SetConsoleMode(t) ==
    /\ threads[t].pc = "SetConsoleMode"
    /\ \E clears \in BOOLEAN :
           LET th == threads[t]
               c == SetConsoleMode(th.std_out_handle, RequestedMode(th.console_mode),
                                   th.err, clears)
           IN  /\ consoleMode' = c.set
               /\ ThreadStep(t, [th EXCEPT !.pc = "done",
                                           !.outcome = IF c.err # 0 THEN Err(c.err) ELSE Ok,
                                           !.err = c.err, !.ncalls = @ + 1])

\* the call returns to the thread's code, which may call again
Return(t) ==
    /\ threads[t].pc = "done"
    /\ ThreadStep(t, [IdleThread EXCEPT !.err = threads[t].err])
    /\ UNCHANGED consoleMode

\* stdout or stderr is re-attached to a console or to a file while the
\* threads run
Reattach ==
    /\ Redirect
    /\ attached' \in [Streams -> {"tty", "file"}]
    /\ attached'["stdin"] = attached["stdin"]

-----------------------------------------------------------------------------
(* Specifications *)

\* the capability helpers, on every build
Init ==
    /\ invocation = NoInvocation
    /\ expansion = <<>>
    /\ platform \in Builds
    /\ attached \in [Streams -> Attachments]
    /\ consoleMode = 3
    /\ vtSupported = TRUE
    /\ lastError = 0
    /\ result = NoCall
    /\ lastVerdict = [s \in Streams |-> NoVerdict]
    /\ constant = NoConstant
    /\ written = NothingWritten
    /\ threads = NoThreads
    /\ startMode = consoleMode

Next ==
    \/ Call_StdPipe_fmt_supported
    \/ Call_fmt_supported_stdout
    \/ Call_fmt_supported_stderr
    \/ Call_use_fmt_stdout
    \/ Call_use_fmt_stderr
    \/ Call_support_fmt_supported_stdout
    \/ Call_support_fmt_supported_stderr
    \/ Call_support_use_fmt_stdout
    \/ Call_support_use_fmt_stderr
    \/ Redirect
    \/ Write

Spec == Init /\ [][Next]_vars

\* the macros
InitMacro ==
    /\ invocation \in Invocations
    /\ expansion = <<>>
    /\ platform = [os |-> "unix", rev |-> "atty"]
    /\ attached = [s \in Streams |-> "tty"]
    /\ consoleMode = 3
    /\ vtSupported = TRUE
    /\ lastError = 0
    /\ result = NoCall
    /\ lastVerdict = [s \in Streams |-> NoVerdict]
    /\ constant = NoConstant
    /\ written = NothingWritten
    /\ threads = NoThreads
    /\ startMode = consoleMode

NextMacro ==
    \/ Expand_seq
    \/ Expand_codes
    \/ Expand_term_seq
    \/ Expand_c256_fg
    \/ Expand_c256_bg
    \/ Expand_rgb_fg
    \/ Expand_rgb_bg

SpecMacro == InitMacro /\ [][NextMacro]_vars

\* enable_ansi_support on the Windows build of src/src/
InitConsole ==
    /\ invocation = NoInvocation
    /\ expansion = <<>>
    /\ platform = [os |-> "windows", rev |-> "atty"]
    /\ attached \in [Streams -> Attachments]
    /\ consoleMode \in ConsoleModes
    /\ vtSupported \in BOOLEAN
    /\ lastError = 0
    /\ result = NoCall
    /\ lastVerdict = [s \in Streams |-> NoVerdict]
    /\ constant = NoConstant
    /\ written = NothingWritten
    /\ threads = NoThreads
    /\ startMode = consoleMode

NextConsole ==
    \/ Call_enable_ansi_support
    \/ Redirect
    \/ SetLastError

SpecConsole == InitConsole /\ [][NextConsole]_vars

\* the catalogues: the program names one constant
InitCatalogue ==
    /\ invocation = NoInvocation
    /\ expansion = <<>>
    /\ platform = [os |-> "unix", rev |-> "atty"]
    /\ attached = [s \in Streams |-> "tty"]
    /\ consoleMode = 3
    /\ vtSupported = TRUE
    /\ lastError = 0
    /\ result = NoCall
    /\ lastVerdict = [s \in Streams |-> NoVerdict]
    /\ \E n \in Names : constant = [source |-> n.source, path |-> n.path,
                                     evaluated |-> FALSE, value |-> <<>>]
    /\ written = NothingWritten
    /\ threads = NoThreads
    /\ startMode = consoleMode

NextCatalogue ==
    \/ Use_predefined
    \/ Use_codes
    \/ Use_lib_predefined

SpecCatalogue == InitCatalogue /\ [][NextCatalogue]_vars

\* several threads in the library at once, on the Windows build of src/src/
InitThreads ==
    /\ invocation = NoInvocation
    /\ expansion = <<>>
    /\ constant = NoConstant
    /\ platform = [os |-> "windows", rev |-> "atty"]
    /\ attached \in [Streams -> {"tty", "file"}]
    /\ attached["stdin"] = "tty"
    /\ written = NothingWritten
    /\ consoleMode \in ConsoleModes
    /\ vtSupported \in BOOLEAN
    /\ lastError = 0
    /\ result = NoCall
    /\ lastVerdict = [s \in Streams |-> NoVerdict]
    /\ threads = [t \in Threads |-> IdleThread]
    /\ startMode = consoleMode

NextThreads ==
    \/ \E t \in Threads :
           \/ Begin_capability(t)
           \/ Step_capability(t)
           \/ Begin_enable_ansi_support(t)
           \/ Step_GetStdHandle(t)
           \/ Step_GetConsoleMode(t)
           \/ Step_SetConsoleMode(t)
           \/ Return(t)
    \/ Reattach

SpecThreads == InitThreads /\ [][NextThreads]_vars

-----------------------------------------------------------------------------
(* Properties: reading a built string back *)

RECURSIVE SplitOn(_, _)
\* the fields of s between occurrences of the byte sep
SplitOn(s, sep) ==
    IF \A i \in 1..Len(s) : s[i] # sep THEN <<s>>
    ELSE LET i == CHOOSE k \in 1..Len(s) : s[k] = sep /\ \A j \in 1..(k - 1) : s[j] # sep
         IN  <<SubSeq(s, 1, i - 1)>> \o SplitOn(SubSeq(s, i + 1, Len(s)), sep)

RECURSIVE NumeralValue(_)
NumeralValue(f) == IF f = <<>> THEN 0
                   ELSE 10 * NumeralValue(SubSeq(f, 1, Len(f) - 1)) + (f[Len(f)] - 48)

\* f is the decimal numeral of v: digits only, no leading zero
IsNumeralOf(f, v) ==
    /\ Len(f) >= 1
    /\ \A i \in 1..Len(f) : f[i] \in 48..57
    /\ Len(f) > 1 => f[1] # 48
    /\ NumeralValue(f) = v

\* str is the numerals of cs, in order, joined by ';' (59)
IsCodesOf(str, cs) ==
    LET fields == SplitOn(str, 59)
    IN  /\ Len(fields) = Len(cs)
        /\ \A i \in 1..Len(cs) : IsNumeralOf(fields[i], cs[i])

\* str is ESC (27) '[' (91), the joined numerals of cs, 'm' (109)
IsSequenceOf(str, cs) ==
    /\ Len(str) >= 4
    /\ str[1] = 27 /\ str[2] = 91 /\ str[Len(str)] = 109
    /\ IsCodesOf(SubSeq(str, 3, Len(str) - 1), cs)

ArgValues(args) == [i \in DOMAIN args |-> args[i].val]

\* C1: for every non-empty list of integer codes c1..cn (no trailing comma),
\* seq! and term_seq! yield ESC '[' followed by the decimal numerals of
\* c1..cn in the given order joined by ';' and a final 'm'.
C1_SeqIsJoinedCodes ==
    ( /\ invocation.expanded
      /\ invocation.macro \in {"seq", "term_seq"}
      /\ invocation.args # <<>>
      /\ ~invocation.trailing
      /\ \A i \in DOMAIN invocation.args : invocation.args[i].kind = "int" )
    => IsSequenceOf(expansion, ArgValues(invocation.args))

\* seq!(4,8,15,16,23,42) was expanded to ESC[4;8;15;16;23;42m
C1_Witness ==
    /\ invocation.expanded
    /\ invocation.macro = "seq"
    /\ invocation.args = IntLits(<<4, 8, 15, 16, 23, 42>>)
    /\ expansion = <<27, 91, 52, 59, 56, 59, 49, 53, 59, 49, 54, 59, 50, 51, 59, 52, 50, 109>>

\* C10: c256_fg!(n) = "38;5;n", c256_bg!(n) = "48;5;n", rgb_fg!(r,g,b) =
\* "38;2;r;g;b", rgb_bg!(r,g,b) = "48;2;r;g;b", and seq! applied to one such
\* fragment F alone yields ESC '[' F 'm'.
C10_ExtendedColourFragments ==
    invocation.expanded =>
        /\ invocation.macro = "c256_fg"
              => IsCodesOf(expansion, <<38, 5>> \o ArgValues(invocation.args))
        /\ invocation.macro = "c256_bg"
              => IsCodesOf(expansion, <<48, 5>> \o ArgValues(invocation.args))
        /\ invocation.macro = "rgb_fg"
              => IsCodesOf(expansion, <<38, 2>> \o ArgValues(invocation.args))
        /\ invocation.macro = "rgb_bg"
              => IsCodesOf(expansion, <<48, 2>> \o ArgValues(invocation.args))
        /\ ( /\ invocation.macro = "seq"
              /\ ~invocation.trailing
              /\ Len(invocation.args) = 1
              /\ invocation.args[1] \in FragArgs )
              => expansion = <<27, 91>> \o invocation.args[1].val \o <<109>>

\* seq!(rgb_bg!(180,15,70)) was expanded to ESC[48;2;180;15;70m
C10_Witness ==
    /\ invocation.expanded
    /\ invocation.macro = "seq"
    /\ invocation.args =
           <<StrLit(<<52, 56, 59, 50, 59, 49, 56, 48, 59, 49, 53, 59, 55, 48>>)>>
    /\ expansion = <<27, 91, 52, 56, 59, 50, 59, 49, 56, 48, 59, 49, 53, 59, 55, 48, 109>>

\* the codes a pre-joined fragment holds, read back from its text
FragmentCodes(str) ==
    LET fields == SplitOn(str, 59)
    IN  [i \in 1..Len(fields) |-> NumeralValue(fields[i])]

\* str is the joined numerals of some non-empty flat code list
IsFlatFragment(str) == IsCodesOf(str, FragmentCodes(str))

\* the flat code list an argument list stands for
RECURSIVE Flatten(_)
Flatten(args) ==
    IF args = <<>> THEN <<>>
    ELSE (IF Head(args).kind = "int" THEN <<Head(args).val>>
          ELSE FragmentCodes(Head(args).val)) \o Flatten(Tail(args))

\* C11: grouping codes into pre-joined fragments never changes the built
\* string: codes! and seq! applied to arguments that are integer codes or
\* fragments codes!(A), codes!(B), ... of non-empty flat code lists yield
\* exactly what they yield for the flat list A ++ B ++ ... of integers.
C11_GroupingIsFlattening ==
    ( /\ invocation.expanded
      /\ invocation.macro \in {"codes", "seq"}
      /\ ~invocation.trailing
      /\ invocation.args # <<>>
      /\ \A i \in DOMAIN invocation.args :
             invocation.args[i].kind = "str" => IsFlatFragment(invocation.args[i].val) )
    => expansion = IF invocation.macro = "codes"
                       THEN codes(IntLits(Flatten(invocation.args)), FALSE)
                       ELSE seq(IntLits(Flatten(invocation.args)), FALSE)

\* seq!(codes!(1, 4), codes!(31)) was expanded to ESC[1;4;31m
C11_Witness ==
    /\ invocation.expanded
    /\ invocation.macro = "seq"
    /\ invocation.args = <<StrLit(<<49, 59, 52>>), StrLit(<<51, 49>>)>>
    /\ expansion = <<27, 91, 49, 59, 52, 59, 51, 49, 109>>

\* C13: seq!() invoked with no arguments evaluates to the empty string, the
\* result of its `() => ""` arm, and never to the code-less ESC '[' 'm'.
C13_EmptySeqIsEmptyString ==
    ( /\ invocation.expanded
      /\ invocation.macro = "seq"
      /\ invocation.args = <<>>
      /\ ~invocation.trailing )
    => expansion = <<>>

\* the part of the expansion that lists the codes
CodesPart == IF invocation.macro = "seq" THEN SubSeq(expansion, 3, Len(expansion) - 1)
             ELSE expansion

\* f is a decimal numeral without sign or leading zeros
IsCanonicalNumeral(f) == IsNumeralOf(f, NumeralValue(f))

\* an argument that stands for one code: an integer literal or a string
\* literal without ';'
IsSingleCode(lit) == lit.kind = "int" \/ \A i \in 1..Len(lit.val) : lit.val[i] # 59

\* C20 as stated: whatever components codes! or seq! is given, every
\* ';'-separated component of the built text is a decimal numeral with no
\* leading zeros and no sign.
C20_EveryComponentCanonical ==
    ( /\ invocation.expanded
      /\ invocation.macro \in {"codes", "seq"}
      /\ invocation.args # <<>> )
    => LET fields == SplitOn(CodesPart, 59)
       IN  \A i \in 1..Len(fields) : IsCanonicalNumeral(fields[i])

\* C20 amended: in codes! and seq!, a component given as an integer literal
\* contributes the decimal numeral of its value, with no leading zeros and no
\* sign, while a component given as a string literal contributes its text
\* unchanged (canonical only if the caller wrote it so).
C20_IntegerComponentsCanonical ==
    ( /\ invocation.expanded
      /\ invocation.macro \in {"codes", "seq"}
      /\ invocation.args # <<>>
      /\ \A i \in DOMAIN invocation.args : IsSingleCode(invocation.args[i]) )
    => LET fields == SplitOn(CodesPart, 59)
       IN  /\ Len(fields) = Len(invocation.args)
           /\ \A i \in DOMAIN invocation.args :
                  IF invocation.args[i].kind = "int"
                      THEN IsNumeralOf(fields[i], invocation.args[i].val)
                      ELSE fields[i] = invocation.args[i].val

\* codes!(1, "007") was expanded to "1;007"
C20_Witness ==
    /\ invocation.expanded
    /\ invocation.macro = "codes"
    /\ invocation.args = <<IntLit(1), StrLit(<<48, 48, 55>>)>>
    /\ expansion = <<49, 59, 48, 48, 55>>

ColourHelpers == {"c256_fg", "c256_bg", "rgb_fg", "rgb_bg"}

\* C21: the extended-colour helpers validate no range and never truncate or
\* wrap: whatever the index or channel values, also above 255, the helper
\* is accepted and each value appears after the two-code prefix as its own
\* decimal numeral.
C21_NoRangeValidation ==
    ( /\ invocation.expanded
      /\ invocation.macro \in ColourHelpers )
    => /\ expansion # CompileError
       /\ LET fields == SplitOn(expansion, 59)
          IN  /\ Len(fields) = 2 + Len(invocation.args)
              /\ NumeralValue(fields[1]) \in {38, 48}
              /\ NumeralValue(fields[2]) \in {5, 2}
              /\ \A i \in DOMAIN invocation.args :
                     /\ IsCanonicalNumeral(fields[2 + i])
                     /\ NumeralValue(fields[2 + i]) = invocation.args[i].val

\* c256_bg!(65536) was expanded to "48;5;65536"
C21_Witness ==
    /\ invocation.expanded
    /\ invocation.macro = "c256_bg"
    /\ invocation.args = <<IntLit(65536)>>
    /\ expansion = <<52, 56, 59, 53, 59, 54, 53, 53, 51, 54>>

\* C29: a trailing comma does not change the result: for every non-empty
\* argument list, codes!(c1, .., cn,) = codes!(c1, .., cn) and
\* seq!(c1, .., cn,) = seq!(c1, .., cn); the built text has no empty code and
\* no dangling ';'.
C29_TrailingCommaIgnored ==
    ( /\ invocation.expanded
      /\ invocation.macro \in {"codes", "seq"}
      /\ invocation.trailing
      /\ invocation.args # <<>> )
    => /\ expansion # CompileError
       /\ expansion = IF invocation.macro = "codes" THEN codes(invocation.args, FALSE)
                                                    ELSE seq(invocation.args, FALSE)
       /\ LET fields == SplitOn(CodesPart, 59)
          IN  \A i \in 1..Len(fields) : fields[i] # <<>>

\* codes!(31, 1, 4,) was expanded to "31;1;4"
C29_Witness ==
    /\ invocation.expanded
    /\ invocation.macro = "codes"
    /\ invocation.trailing
    /\ invocation.args = IntLits(<<31, 1, 4>>)
    /\ expansion = <<51, 49, 59, 49, 59, 52>>

-----------------------------------------------------------------------------
(* Properties: the catalogues *)

NewCatalogues == {"src/src/predefined.rs", "src/src/codes.rs"}

\* C12: effects::POSITIVE is the constant that removes the inverse effect:
\* in predefined it equals effects::remove::INVERSE, ESC[27m, and in codes
\* it equals effects::remove::INVERSE, "27".
C12_PositiveRemovesInverse ==
    ( /\ constant.evaluated
      /\ constant.source \in NewCatalogues
      /\ constant.path = <<"effects", "POSITIVE">> )
    => /\ constant.value = ConstValue(constant.source, <<"effects", "remove", "INVERSE">>)
       /\ constant.value = IF constant.source = "src/src/predefined.rs"
                               THEN <<27, 91, 50, 55, 109>>
                               ELSE <<50, 55>>

\* the colour names in the order of their index 0..7
ColourNames == <<"BLACK", "RED", "GREEN", "YELLOW", "BLUE", "MAGENTA", "CYAN", "WHITE">>

\* C15: in src/src/predefined.rs, for every colour index i in 0..7 (BLACK ..
\* WHITE) colours::fg is ESC[(30+i)m, colours::bg is ESC[(40+i)m,
\* colours::fg::bright is ESC[(90+i)m, colours::bg::bright is ESC[(100+i)m
\* and combinations::fg_bold is ESC[(30+i);1m; colours::fg::RESET is ESC[39m,
\* colours::bg::RESET is ESC[49m and RESET is ESC[0m.
C15_BasicColoursFollowChart ==
    ( /\ constant.evaluated
      /\ constant.source = "src/src/predefined.rs" )
    => LET path == Canonical(constant.path)
           value == constant.value
       IN  /\ \A i \in 0..7 :
                  /\ path = <<"colours", "fg", ColourNames[i + 1]>>
                         => IsSequenceOf(value, <<30 + i>>)
                  /\ path = <<"colours", "bg", ColourNames[i + 1]>>
                         => IsSequenceOf(value, <<40 + i>>)
                  /\ path = <<"colours", "fg", "bright", ColourNames[i + 1]>>
                         => IsSequenceOf(value, <<90 + i>>)
                  /\ path = <<"colours", "bg", "bright", ColourNames[i + 1]>>
                         => IsSequenceOf(value, <<100 + i>>)
                  /\ path = <<"combinations", "fg_bold", ColourNames[i + 1]>>
                         => IsSequenceOf(value, <<30 + i, 1>>)
           /\ path = <<"colours", "fg", "RESET">> => IsSequenceOf(value, <<39>>)
           /\ path = <<"colours", "bg", "RESET">> => IsSequenceOf(value, <<49>>)
           /\ path = <<"RESET">> => IsSequenceOf(value, <<0>>)

\* predefined::colours::bg::bright::CYAN was evaluated to ESC[106m
C15_Witness ==
    /\ constant.evaluated
    /\ constant.source = "src/src/predefined.rs"
    /\ constant.path = <<"colours", "bg", "bright", "CYAN">>
    /\ constant.value = <<27, 91, 49, 48, 54, 109>>

\* str is ESC '[', one or more non-empty runs of decimal digits separated by
\* single ';', then 'm', and nothing else
IsWellFormedSequence(str) ==
    /\ Len(str) >= 4
    /\ str[1] = 27 /\ str[2] = 91 /\ str[Len(str)] = 109
    /\ LET fields == SplitOn(SubSeq(str, 3, Len(str) - 1), 59)
       IN  \A i \in 1..Len(fields) :
               /\ Len(fields[i]) >= 1
               /\ \A j \in 1..Len(fields[i]) : fields[i][j] \in 48..57

\* C16: every constant of the predefined catalogue (src/src/predefined.rs and
\* mod predefined of src/lib.rs) is a well-formed control sequence: ESC '[',
\* one or more non-empty decimal integers separated by single ';', 'm'.
C16_PredefinedWellFormed ==
    ( /\ constant.evaluated
      /\ constant.source \in {"src/src/predefined.rs", "src/lib.rs"} )
    => IsWellFormedSequence(constant.value)

\* color1_bold::GREEN of src/lib.rs was evaluated to ESC[32;1m
C16_Witness ==
    /\ constant.evaluated
    /\ constant.source = "src/lib.rs"
    /\ constant.path = <<"color1_bold", "GREEN">>
    /\ constant.value = <<27, 91, 51, 50, 59, 49, 109>>

\* the codes a catalogue value carries: a sequence without its ESC '[' and
\* 'm' in predefined, the value itself in codes
CarriedCodes(source, value) ==
    FragmentCodes(IF source = "src/src/predefined.rs"
                      THEN SubSeq(value, 3, Len(value) - 1) ELSE value)

\* the effects that have a removal code of their own, with their codes
RemovableEffects == { <<"ITALIC", 3>>, <<"UNDERLINE", 4>>, <<"BLINK", 5>>,
                      <<"INVERSE", 7>>, <<"INVISIBLE", 8>>, <<"STRIKE", 9>> }

\* C27: in both catalogues, for E in ITALIC (3), UNDERLINE (4), BLINK (5),
\* INVERSE (7), INVISIBLE (8), STRIKE (9) the constant effects::remove::E
\* carries the code of effects::E plus 20; effects::remove::BOLD_DIM carries
\* 22; STEADY, VISIBLE and remove::INTENSITY equal remove::BLINK,
\* remove::INVISIBLE and remove::BOLD_DIM.
C27_RemovalCodesLastDigitRule ==
    ( /\ constant.evaluated
      /\ constant.source \in NewCatalogues )
    => LET src == constant.source
           value == constant.value
       IN  /\ \A e \in RemovableEffects :
                  /\ constant.path = <<"effects", e[1]>>
                         => CarriedCodes(src, value) = <<e[2]>>
                  /\ constant.path = <<"effects", "remove", e[1]>>
                         => /\ CarriedCodes(src, value) = <<e[2] + 20>>
                            /\ CarriedCodes(src, value)[1]
                                   = CarriedCodes(src, ConstValue(src, <<"effects", e[1]>>))[1] + 20
           /\ constant.path = <<"effects", "remove", "BOLD_DIM">>
                  => CarriedCodes(src, value) = <<22>>
           /\ constant.path = <<"effects", "STEADY">>
                  => /\ value = ConstValue(src, <<"effects", "remove", "BLINK">>)
                     /\ CarriedCodes(src, value) = <<25>>
           /\ constant.path = <<"effects", "VISIBLE">>
                  => /\ value = ConstValue(src, <<"effects", "remove", "INVISIBLE">>)
                     /\ CarriedCodes(src, value) = <<28>>
           /\ constant.path = <<"effects", "remove", "INTENSITY">>
                  => /\ value = ConstValue(src, <<"effects", "remove", "BOLD_DIM">>)
                     /\ CarriedCodes(src, value) = <<22>>

\* predefined::effects::STEADY was evaluated to ESC[25m
C27_Witness ==
    /\ constant.evaluated
    /\ constant.source = "src/src/predefined.rs"
    /\ constant.path = <<"effects", "STEADY">>
    /\ constant.value = <<27, 91, 50, 53, 109>>

\* the paths a catalogue defines
PathsOf(source) == {d.path : d \in {e \in Catalogue : e.source = source}}

CodesFraming == {<<"SEQ_PREFIX">>, <<"SEQ_POSTFIX">>}

\* C28: the two catalogues correspond name for name: every constant path X
\* of src/src/codes.rs other than SEQ_PREFIX and SEQ_POSTFIX is defined in
\* predefined with the value SEQ_PREFIX ++ codes::X ++ SEQ_POSTFIX, and
\* every constant of predefined has such a counterpart in codes.
C28_CataloguesCorrespond ==
    constant.evaluated =>
        LET path == Canonical(constant.path)
            PREFIX == ConstValue("src/src/codes.rs", <<"SEQ_PREFIX">>)
            POSTFIX == ConstValue("src/src/codes.rs", <<"SEQ_POSTFIX">>)
        IN  /\ (constant.source = "src/src/codes.rs" /\ path \notin CodesFraming)
                   => /\ path \in PathsOf("src/src/predefined.rs")
                      /\ ConstValue("src/src/predefined.rs", path)
                             = PREFIX \o constant.value \o POSTFIX
            /\ constant.source = "src/src/predefined.rs"
                   => /\ path \in PathsOf("src/src/codes.rs") \ CodesFraming
                      /\ constant.value
                             = PREFIX \o ConstValue("src/src/codes.rs", path) \o POSTFIX

\* codes::combinations::fg_bold::CYAN was evaluated to "36;1", and its
\* counterpart in predefined is ESC[36;1m
C28_Witness ==
    /\ constant.evaluated
    /\ constant.source = "src/src/codes.rs"
    /\ constant.path = <<"combinations", "fg_bold", "CYAN">>
    /\ constant.value = <<51, 54, 59, 49>>
    /\ ConstValue("src/src/predefined.rs", constant.path) = <<27, 91, 51, 54, 59, 49, 109>>

-----------------------------------------------------------------------------
(* Properties: the capability helpers *)

FmtSupportedOps == {"support::fmt_supported_stdout", "support::fmt_supported_stderr",
                    "fmt_supported_stdout", "fmt_supported_stderr",
                    "StdPipe::fmt_supported"}

UseFmtOps == {"support::use_fmt_stdout", "support::use_fmt_stderr",
              "use_fmt_stdout", "use_fmt_stderr"}

\* the helpers that are about stdout, and those about stderr
StdoutOps == {"support::fmt_supported_stdout", "fmt_supported_stdout",
              "support::use_fmt_stdout", "use_fmt_stdout"}
StderrOps == {"support::fmt_supported_stderr", "fmt_supported_stderr",
              "support::use_fmt_stderr", "use_fmt_stderr"}

\* the stream a returned call was about: fixed by the helper's name, or by
\* the StdPipe argument
AboutStream ==
    IF result.op \in StdoutOps THEN "stdout"
    ELSE IF result.op \in StderrOps THEN "stderr"
    ELSE result.stream

\* the Windows build of the StdPipe revision answers no for every stream
AlwaysNoBuild == platform = [os |-> "windows", rev |-> "StdPipe"]

\* C2: for s in {stdout, stderr}, fmt_supported_stdout / fmt_supported_stderr
\* (and StdPipe::fmt_supported(s) of the POSIX StdPipe revision) return true
\* if and only if that same stream s is attached to a terminal at the time of
\* the call; false when s is a regular file or a pipe.
C2_SupportedIffTerminal ==
    ( /\ result.op \in FmtSupportedOps
      /\ AboutStream \in {"stdout", "stderr"}
      /\ ~AlwaysNoBuild )
    => result.value = (attached[AboutStream] = "tty")

\* fmt_supported_stderr() returned false with stderr on a pipe, stdout on a tty
C2_Witness ==
    /\ result.op = "support::fmt_supported_stderr"
    /\ attached["stderr"] = "pipe"
    /\ attached["stdout"] = "tty"
    /\ result.value = FALSE

\* C3: use_fmt_stdout(p) / use_fmt_stderr(p) return p AND the capability
\* verdict for that stream at the time of the call: true only when p is true
\* and the stream is attached to a terminal.
C3_UseFmtIsPrefAndVerdict ==
    result.op \in UseFmtOps =>
        /\ result.value =
              (result.pref /\ ~AlwaysNoBuild /\ attached[AboutStream] = "tty")
        /\ result.value => (result.pref /\ attached[AboutStream] = "tty")

\* use_fmt_stdout(true) returned true on a terminal while stderr is a file
C3_Witness ==
    /\ result.op = "support::use_fmt_stdout"
    /\ result.pref
    /\ attached["stdout"] = "tty"
    /\ attached["stderr"] = "file"
    /\ result.value = TRUE

\* C4: with user preference false, use_fmt_stdout / use_fmt_stderr return
\* false and make no call to the platform terminal probe, for every stream
\* and every attachment.
C4_PrefFalseNoProbe ==
    (result.op \in UseFmtOps /\ ~result.pref)
    => (result.value = FALSE /\ result.calls = <<>>)

\* use_fmt_stdout(false) returned on a terminal without probing it
C4_Witness ==
    /\ result.op = "support::use_fmt_stdout"
    /\ ~result.pref
    /\ attached["stdout"] = "tty"
    /\ result.value = FALSE
    /\ result.calls = <<>>

\* C5: the verdict is never cached: a call on a stream for which an earlier
\* call already computed a verdict still returns the verdict for the stream's
\* attachment at the moment of this call.
C5_NeverCached ==
    ( /\ result.op \in FmtSupportedOps \cup UseFmtOps
      /\ result.pref
      /\ result.before # NoVerdict )
    => result.value =
          (~AlwaysNoBuild /\ AboutStream # "stdin" /\ attached[AboutStream] = "tty")

\* an earlier call on stdout said true; after a redirection this one says false
C5_Witness ==
    /\ result.op = "support::fmt_supported_stdout"
    /\ result.before = {TRUE}
    /\ attached["stdout"] = "file"
    /\ result.value = FALSE

\* C6: StdPipe::fmt_supported(StdPipe::StdIn) returns false on the POSIX and
\* on the Windows variant, whatever stdin is attached to.
C6_StdInNeverSupported ==
    (result.op = "StdPipe::fmt_supported" /\ result.stream = "stdin")
    => result.value = FALSE

\* the POSIX variant answered false for a stdin that is a terminal
C6_Witness ==
    /\ result.op = "StdPipe::fmt_supported"
    /\ result.stream = "stdin"
    /\ platform.os = "unix"
    /\ attached["stdin"] = "tty"
    /\ result.value = FALSE

\* C7: StdPipe::fmt_supported returns true only when the probe positively
\* reports a terminal; a probe result that denotes an error (a closed
\* descriptor) or a non-terminal gives false.
C7_ProbeErrorIsFalse ==
    result.op = "StdPipe::fmt_supported" =>
        /\ result.value =>
              /\ Len(result.calls) = 1
              /\ result.calls[1].ret = 1
              /\ attached[result.stream] = "tty"
        /\ attached[result.stream] = "closed" => result.value = FALSE

\* isatty failed on a closed stdout (returned 0) and the verdict was false
C7_Witness ==
    /\ result.op = "StdPipe::fmt_supported"
    /\ platform.os = "unix"
    /\ result.stream = "stdout"
    /\ attached["stdout"] = "closed"
    /\ Len(result.calls) = 1
    /\ result.calls[1].ret = 0
    /\ result.value = FALSE

\* C14: on the Windows build of the src/lib.rs revision every basic check
\* answers no: StdPipe::fmt_supported for StdIn, StdOut and StdErr,
\* fmt_supported_stdout, fmt_supported_stderr, and use_fmt_stdout(p),
\* use_fmt_stderr(p) for both p, whatever the streams are attached to.
C14_WindowsAlwaysNo ==
    ( /\ AlwaysNoBuild
      /\ result.op \in {"StdPipe::fmt_supported", "fmt_supported_stdout",
                        "fmt_supported_stderr", "use_fmt_stdout", "use_fmt_stderr"} )
    => result.value = FALSE

\* use_fmt_stdout(true) returned false there with stdout on a terminal
C14_Witness ==
    /\ AlwaysNoBuild
    /\ result.op = "use_fmt_stdout"
    /\ result.pref
    /\ attached["stdout"] = "tty"
    /\ result.value = FALSE

\* C17: a call to fmt_supported_stdout, fmt_supported_stderr, use_fmt_stdout,
\* use_fmt_stderr or StdPipe::fmt_supported leaves the attachment of every
\* stream, the bytes written to every stream and the console mode unchanged.
C17_CapabilityCallsReadOnly ==
    [][ result'.op \in (FmtSupportedOps \cup UseFmtOps)
        => /\ attached' = attached
           /\ written' = written
           /\ consoleMode' = consoleMode ]_vars

\* fmt_supported_stdout() returned with stdout on a terminal, after the
\* program had printed to stdout: its byte is all that was written
C17_Witness ==
    /\ result.op = "support::fmt_supported_stdout"
    /\ result.value = TRUE
    /\ attached["stdout"] = "tty"
    /\ written = [NothingWritten EXCEPT !["stdout"] = <<ESC>>]
    /\ consoleMode = result.entry.mode

-----------------------------------------------------------------------------
(* Properties: threads in the library at once *)

\* C18: however the calls of several threads to fmt_supported_*, use_fmt_*
\* and enable_ansi_support interleave (no one else writing the console mode),
\* each capability call returns the verdict for what its stream was attached
\* to at the moment of its probe, and the console mode is always the initial
\* mode with at most the virtual-terminal-processing bit added.
C18_ConcurrentCallsIndependent ==
    /\ \A t \in Threads :
           (threads[t].pc = "done" /\ threads[t].op \in ThreadOps)
           => threads[t].verdict = (threads[t].user_pref /\ threads[t].probed = "tty")
    /\ consoleMode \in {startMode, BitOr(startMode, ENABLE_VIRTUAL_TERMINAL_PROCESSING)}

\* two enable_ansi_support calls raced: both read mode 3 before either wrote,
\* both made their SetConsoleMode call and returned Ok(()); the mode is 7
C18_Witness ==
    /\ startMode = 3
    /\ consoleMode = 7
    /\ \A t \in Threads :
           /\ threads[t].op = "enable_ansi_support"
           /\ threads[t].pc = "done"
           /\ threads[t].console_mode = 3
           /\ threads[t].ncalls = 3
           /\ threads[t].outcome = Ok

\* the steps a thread takes inside a call
InCallStep(t) ==
    \/ Step_capability(t)
    \/ Step_GetStdHandle(t)
    \/ Step_GetConsoleMode(t)
    \/ Step_SetConsoleMode(t)

C30_VerdictDependsOnOwnStreamOnly ==
    \A t1 \in Threads, t2 \in Threads :
        ( /\ threads[t1].pc = "done" /\ threads[t2].pc = "done"
          /\ threads[t1].op \in ThreadOps
          /\ threads[t2].op = threads[t1].op
          /\ threads[t2].user_pref = threads[t1].user_pref
          /\ threads[t2].probed = threads[t1].probed )
        => threads[t2].verdict = threads[t1].verdict

\* two calls of fmt_supported_stdout() found stdout on a console and both
\* said yes: one with the console in mode 3 and stderr on a console, the
\* other after enable_ansi_support had set mode 7 and with stderr on a file
C30_Witness ==
    /\ \A t \in Threads :
           /\ threads[t].op = "support::fmt_supported_stdout"
           /\ threads[t].pc = "done"
           /\ threads[t].probed = "tty"
           /\ threads[t].verdict = TRUE
    /\ threads[1].beside = [mode |-> 3, other |-> "tty"]
    /\ threads[2].beside = [mode |-> 7, other |-> "file"]

-----------------------------------------------------------------------------
(* Properties: enable_ansi_support *)

\* C8: enable_ansi_support returns Err(e) only when one of the platform calls
\* it made failed, with e the error code of that call; when every platform
\* call it made succeeded it returns Ok(()), whatever the last-error code was
\* before the call.
C8_ErrOnlyWhenACallFailed ==
    result.op = "enable_ansi_support" =>
        /\ ~result.value.ok =>
              \E i \in DOMAIN result.calls :
                  ~result.calls[i].ok /\ result.calls[i].err = result.value.err
        /\ (\A i \in DOMAIN result.calls : result.calls[i].ok) => result.value = Ok

\* C9: whenever stderr is attached to a console and the platform supports
\* virtual-terminal processing, enable_ansi_support leaves it enabled on
\* stderr's console and returns Ok(()), also when stdout is redirected.
\* (Stated for calls entered with a zero last-error code and whose
\* GetStdHandle did not fail.)
C9_EnablesStderrConsole ==
    ( /\ result.op = "enable_ansi_support"
      /\ attached["stderr"] = "tty"
      /\ vtSupported
      /\ result.entry.err = 0
      /\ result.calls[1].ok )
    => /\ result.value = Ok
       /\ BitAnd(consoleMode, 4) = 4

\* the platform calls a returned enable_ansi_support made, by name
CallNames == [i \in DOMAIN result.calls |-> result.calls[i].api]

C23_AlreadyEnabledIsNoOp ==
    ( /\ result.op = "enable_ansi_support"
      /\ Len(result.calls) >= 2
      /\ result.calls[2].ok
      /\ BitAnd(result.entry.mode, ENABLE_VIRTUAL_TERMINAL_PROCESSING) # 0 )
    => /\ result.value = Ok
       /\ CallNames = <<"GetStdHandle", "GetConsoleMode">>
       /\ consoleMode = result.entry.mode

\* with mode 5 read, enable_ansi_support returned Ok(()) after two calls
C23_Witness ==
    /\ result.op = "enable_ansi_support"
    /\ result.entry.mode = 5
    /\ result.calls[Len(result.calls)].api = "GetConsoleMode"
    /\ result.calls[Len(result.calls)].ok
    /\ result.value = Ok
    /\ consoleMode = 5

====
